---- MODULE Spec2Model ----
(***************************************************************************)
(* Model of qrqcrew-notes-daemon: the sync loop of main.rs (one pass per   *)
(* iteration: per-organization pipeline, grouping by destination, batch    *)
(* commit per destination), the bounded-concurrency nickname enrichment,   *)
(* the nickname cache and the six-step batch commit of github.rs (Spec);   *)
(* the QRZ client's session and lookups (SpecQrz), the roster fetch with   *)
(* retry (SpecFetch), the CSV and HTML roster parsers (SpecParse) and the  *)
(* nickname cache with its backing file over process runs (SpecCache);     *)
(* the rendering and comparison of a notes file (SpecNotes) and the        *)
(* resolution of an organization's destination (SpecResolve).              *)
(***************************************************************************)
EXTENDS Integers, Sequences, FiniteSets, TLC

(***************************************************************************)
(* Bounds of the model.                                                    *)
(***************************************************************************)
MaxPasses == 2      \* passes of the sync loop that are explored
NumOrgs   == 2      \* organizations in the configuration
NumCalls  == 2      \* distinct callsigns a roster can hold
MaxN      == 2      \* largest explicitly configured max_concurrent_lookups

(***************************************************************************)
(* Program constants.                                                      *)
(***************************************************************************)
DEFAULT_MAX_CONCURRENT_LOOKUPS == 10
DEFAULT_TTL_DAYS == 30

\* Option<T>: None is the empty set, Some(x) the singleton {x}.
None == {}
Some(x) == {x}
Unwrap(opt) == CHOOSE x \in opt : TRUE

Orgs      == 1..NumOrgs
Callsigns == 1..NumCalls

(***************************************************************************)
(* Configuration.                                                          *)
(***************************************************************************)
\* config.github: the global destination.
GlobalGitHub == [owner |-> "jsvana", repo |-> "notes", branch |-> "main"]

\* The per-organization overrides explored: none at all, or a different repo.
OrgGitHubChoices ==
    { None, Some([owner |-> None, repo |-> Some("other"), branch |-> None]) }

\* Mutant: the organization's override is ignored.
resolve_global_only(org_github, global) == global

\* GitHubTarget::resolve: override wins field by field, global otherwise.
resolve(org_github, global) ==
    IF org_github = None
    THEN global
    ELSE LET org == Unwrap(org_github)
         IN  [owner  |-> IF org.owner  = None THEN global.owner  ELSE Unwrap(org.owner),
              repo   |-> IF org.repo   = None THEN global.repo   ELSE Unwrap(org.repo),
              branch |-> IF org.branch = None THEN global.branch ELSE Unwrap(org.branch)]

Targets == { resolve(g, GlobalGitHub) : g \in OrgGitHubChoices }

\* config.qrz: absent (or disabled), or enabled with an optional
\* max_concurrent_lookups (a usize, so 0 is a value the file can carry).
QrzChoices ==
    { None } \cup { Some([max_concurrent_lookups |-> m]) :
                      m \in {None} \cup { Some(n) : n \in 0..MaxN } }

\* The rosters a fetch can parse to: sorted, duplicate-free member lists.
Member(c) == [callsign |-> c, member_id |-> c, nickname |-> None]
Rosters == { [i \in 1..k |-> Member(i)] : k \in 0..NumCalls }

VARIABLES
    cfg,              \* cli + config: once, run_once, dry_run, qrz, orgs
    pc,               \* position of main
    pass,             \* number of the current pass (0 before the first)
    now,              \* clock (Utc::now), in days; a sleep lasts one day
    org_idx,          \* index into enabled_orgs of the organization in work
    members,          \* prepare_org_update: the member list in work
    tasks,            \* enrich_with_nicknames: the lookup futures of the stream
    permits,          \* enrich_with_nicknames: free permits of the semaphore
    results,          \* enrich_with_nicknames: collected (callsign, nickname)
    nickname_cache,   \* NicknameCache: entries, dirty
    cache_file,       \* content of the cache's backing file
    pending_files,    \* main: Vec<PendingFile> of this pass
    files_by_target,  \* main: HashMap<GitHubTarget, Vec<PendingFile>>
    bc,               \* the batch_commit call in progress or last finished
    remote,           \* per destination: branch head and tree at the head
    hist,             \* observations of the current pass
    session_key,      \* QrzClient.session_key: the cached session token
    calls,            \* QrzClient: the lookup_nickname calls in progress
    qrz_server,       \* the QRZ service: tokens issued, whether it answers
    fetch,            \* CsvFetcher / HtmlFetcher: a fetch_with_retry call
    parse,            \* CsvFetcher / HtmlFetcher: a document and its parse
    store,            \* NicknameCache and its backing file over process runs
    eval              \* a call of a pure function: its arguments, its result

\* The daemon's own variables, and those of the components that the
\* specifications SpecQrz, SpecFetch, SpecParse, SpecCache, SpecNotes and
\* SpecResolve exercise on their own.
main_vars == << cfg, pc, pass, now, org_idx, members, tasks, permits, results,
                nickname_cache, cache_file, pending_files, files_by_target, bc,
                remote, hist >>
qrz_vars   == << session_key, calls, qrz_server >>
unit_vars  == << qrz_vars, fetch, parse, store, eval >>

vars == << cfg, pc, pass, now, org_idx, members, tasks, permits, results,
           nickname_cache, cache_file, pending_files, files_by_target, bc,
           remote, hist, session_key, calls, qrz_server, fetch, parse, store, eval >>

(***************************************************************************)
(* Helpers                                                                 *)
(***************************************************************************)
\* main.rs:47
run_once == cfg.once \/ cfg.run_once

\* Mutant: the flag is parsed but not passed on.
dry_run_unwired == FALSE

\* main.rs:30-32, 112, 137: the --dry-run flag
dry_run == cfg.dry_run

\* main.rs:49
enabled_orgs == SelectSeq([i \in 1..NumOrgs |-> i], LAMBDA o : cfg.orgs[o].enabled)

\* Mutant: the limit is one too large.
max_concurrent_lookups_off_by_one ==
    IF cfg.qrz = None \/ Unwrap(cfg.qrz).max_concurrent_lookups = None
    THEN DEFAULT_MAX_CONCURRENT_LOOKUPS
    ELSE Unwrap(Unwrap(cfg.qrz).max_concurrent_lookups) + 1

\* main.rs:101-105
max_concurrent_lookups ==
    IF cfg.qrz = None \/ Unwrap(cfg.qrz).max_concurrent_lookups = None
    THEN DEFAULT_MAX_CONCURRENT_LOOKUPS
    ELSE Unwrap(Unwrap(cfg.qrz).max_concurrent_lookups)

RECURSIVE Insert(_, _)
Insert(m, s) ==
    IF s = << >> THEN << m >>
    ELSE IF m.callsign < Head(s).callsign THEN << m >> \o s
    ELSE << Head(s) >> \o Insert(m, Tail(s))

RECURSIVE sort_by_callsign(_)
sort_by_callsign(s) ==
    IF s = << >> THEN << >> ELSE Insert(Head(s), sort_by_callsign(Tail(s)))

\* One line of a notes file.
Line(kind, org, call, id, ts) ==
    [kind |-> kind, org |-> org, call |-> call, id |-> id, ts |-> ts]

\* NotesGenerator::generate (the url is None in main.rs:251, so no url line).
generate(org, ms, ts) ==
    LET sorted == sort_by_callsign(ms)
    IN  << Line("title", org, 0, 0, 0),
           Line("generated", 0, 0, 0, ts),
           Line("do_not_edit", 0, 0, 0, 0),
           Line("blank", 0, 0, 0, 0) >>
        \o [i \in 1..Len(sorted) |->
               Line("entry", org, sorted[i].callsign, sorted[i].member_id, 0)]

\* l.starts_with("# Generated:")
IsGeneratedLine(l) == l.kind = "generated"

\* GitHubClient::content_changed, on the content get_file_content returned.
content_changed(existing, new_content) ==
    IF existing = None
    THEN TRUE
    ELSE SelectSeq(Unwrap(existing), LAMBDA l : ~IsGeneratedLine(l))
           # SelectSeq(new_content, LAMBDA l : ~IsGeneratedLine(l))

\* CacheEntry::is_expired
is_expired(entry) == now - entry.cached_at > DEFAULT_TTL_DAYS

\* Mutant: every get is a miss.
get_always_miss(cache, callsign) == None

\* NicknameCache::get: Option<Option<String>>
get(cache, callsign) ==
    IF cache.entries[callsign] = None \/ is_expired(Unwrap(cache.entries[callsign]))
    THEN None
    ELSE Some(Unwrap(cache.entries[callsign]).nickname)

\* NicknameCache::insert
insert(cache, callsign, nickname) ==
    [cache EXCEPT !.entries[callsign] = Some([nickname |-> nickname, cached_at |-> now]),
                  !.dirty = TRUE]

EmptyHist ==
    [attempts |-> [o \in Orgs |-> 0],      \* prepare_org_update calls per org
     outcome  |-> [o \in Orgs |-> "none"], \* how each call ended
     lookups  |-> [o \in Orgs |-> 0],      \* lookup requests issued per org
     saves    |-> 0,                       \* cache saves that wrote the file
     rendered |-> {},                      \* orgs whose notes were rendered
     queued   |-> << >>,                   \* every PendingFile pushed
     commit   |-> [t \in Targets |-> "none"],  \* per destination: how its
                                           \* entry of the commit loop ended
     calls    |-> << >>]                   \* batch_commit calls: target, files

NoCall ==
    [status |-> "idle", target |-> GlobalGitHub, files |-> << >>, step |-> "none",
     head_sha |-> None, base_tree |-> None, blobs |-> 0, tree |-> None,
     commit |-> None, ref_updates |-> 0, head_before |-> 0]

\* The components at rest: no lookup call, no fetch, no parse in progress.
QrzIdle ==
    /\ session_key = None
    /\ calls = << >>
    /\ qrz_server = [issued |-> 0, answers |-> TRUE]
FetchIdle == fetch = [pc |-> "idle"]
ParseIdle == parse = [pc |-> "idle"]
StoreIdle == store = [pc |-> "idle"]
EvalIdle == eval = [pc |-> "idle"]

\* The daemon at rest: the process has ended (no organization is enabled).
MainIdle ==
    /\ cfg = [once |-> TRUE, run_once |-> FALSE, dry_run |-> FALSE, qrz |-> None,
              orgs |-> [o \in Orgs |-> [enabled |-> FALSE, github |-> None]]]
    /\ pc = "done"
    /\ pass = 0
    /\ now = 0
    /\ org_idx = 1
    /\ members = << >>
    /\ tasks = << >>
    /\ permits = 0
    /\ results = << >>
    /\ nickname_cache = [entries |-> [c \in Callsigns |-> None], dirty |-> FALSE]
    /\ cache_file = [c \in Callsigns |-> None]
    /\ pending_files = << >>
    /\ files_by_target = [t \in {} |-> << >>]
    /\ bc = NoCall
    /\ remote = [t \in Targets |-> [head |-> 0, tree |-> [o \in Orgs |-> None]]]
    /\ hist = EmptyHist

(***************************************************************************)
(* Initial state: configuration loaded, cache loaded from a missing file,  *)
(* about to enter main's loop.                                             *)
(***************************************************************************)
Init ==
    /\ cfg \in { [once |-> o, run_once |-> r, dry_run |-> d, qrz |-> q, orgs |-> og] :
                   o \in BOOLEAN, r \in BOOLEAN, d \in BOOLEAN, q \in QrzChoices,
                   og \in { f \in [Orgs -> [enabled : BOOLEAN, github : OrgGitHubChoices]] :
                              f[1].github = None } }
    /\ pc = "start"
    /\ pass = 0
    /\ now = 0
    /\ org_idx = 1
    /\ members = << >>
    /\ tasks = << >>
    /\ permits = 0
    /\ results = << >>
    /\ nickname_cache = [entries |-> [c \in Callsigns |-> None], dirty |-> FALSE]
    /\ cache_file = [c \in Callsigns |-> None]
    /\ pending_files = << >>
    /\ files_by_target = [t \in {} |-> << >>]
    /\ bc = NoCall
    /\ remote = [t \in Targets |-> [head |-> 0, tree |-> [o \in Orgs |-> None]]]
    /\ hist = EmptyHist
    /\ QrzIdle /\ FetchIdle /\ ParseIdle /\ StoreIdle /\ EvalIdle

(***************************************************************************)
(* main: startup and the pass loop                                         *)
(***************************************************************************)
\* The organization prepare_org_update is working on.
cur_org == enabled_orgs[org_idx]

\* main.rs:49-54: no enabled organization ends the process at once.
main_start ==
    /\ pc = "start"
    /\ pc' = IF enabled_orgs = << >> THEN "done" ELSE "loop"
    /\ UNCHANGED << unit_vars, cfg, pass, now, org_idx, members, tasks, permits, results,
                    nickname_cache, cache_file, pending_files, files_by_target,
                    bc, remote, hist >>

\* main.rs:94-105: top of the loop; run_connectivity_check changes no state,
\* pending_files starts empty.
run_connectivity_check ==
    /\ pc = "loop"
    /\ pass' = pass + 1
    /\ pending_files' = << >>
    /\ org_idx' = 1
    /\ hist' = EmptyHist
    /\ bc' = NoCall
    /\ pc' = "orgs"
    /\ UNCHANGED << unit_vars, cfg, now, members, tasks, permits, results, nickname_cache,
                    cache_file, files_by_target, remote >>

(***************************************************************************)
(* prepare_org_update, and the arm of main's match that takes its result   *)
(***************************************************************************)
\* Mutant: main propagates the error of prepare_org_update with `?`, which
\* ends the process.
fetch_members_propagate_error(outcome, roster) ==
    /\ pc = "orgs"
    /\ org_idx <= Len(enabled_orgs)
    /\ LET o == cur_org
           h == [hist EXCEPT !.attempts[o] = @ + 1]
       IN  IF outcome # "ok"
           THEN /\ hist' = [h EXCEPT !.outcome[o] = outcome]
                /\ pc' = "done"
                /\ UNCHANGED << org_idx, members >>
           ELSE IF roster = << >>
           THEN /\ hist' = [h EXCEPT !.outcome[o] = "empty"]
                /\ org_idx' = org_idx + 1
                /\ UNCHANGED << pc, members >>
           ELSE /\ hist' = h
                /\ members' = roster
                /\ pc' = IF cfg.qrz # None THEN "enrich" ELSE "render"
                /\ UNCHANGED org_idx
    /\ UNCHANGED << unit_vars, cfg, pass, now, tasks, permits, results, nickname_cache,
                    cache_file, pending_files, files_by_target, bc, remote >>

\* Mutant: the check for an empty roster is missing.
fetch_members_no_empty_check(outcome, roster) ==
    /\ pc = "orgs"
    /\ org_idx <= Len(enabled_orgs)
    /\ LET o == cur_org
           h == [hist EXCEPT !.attempts[o] = @ + 1]
       IN  IF outcome # "ok"
           THEN /\ hist' = [h EXCEPT !.outcome[o] = outcome]
                /\ org_idx' = org_idx + 1
                /\ UNCHANGED << pc, members >>
           ELSE /\ hist' = h
                /\ members' = roster
                /\ pc' = IF cfg.qrz # None THEN "enrich" ELSE "render"
                /\ UNCHANGED org_idx
    /\ UNCHANGED << unit_vars, cfg, pass, now, tasks, permits, results, nickname_cache,
                    cache_file, pending_files, files_by_target, bc, remote >>

\* main.rs:107-118, 206-243, 127-133: fetch and parse the roster.
\* outcome is "fetch_error", "parse_error" or "ok" with the parsed roster.
fetch_members(outcome, roster) ==
    /\ pc = "orgs"
    /\ org_idx <= Len(enabled_orgs)
    /\ LET o == cur_org
           h == [hist EXCEPT !.attempts[o] = @ + 1]
       IN  IF outcome # "ok"
           THEN \* Err(e): logged by main, next organization
                /\ hist' = [h EXCEPT !.outcome[o] = outcome]
                /\ org_idx' = org_idx + 1
                /\ UNCHANGED << pc, members >>
           ELSE IF roster = << >>
           THEN \* Ok(None): empty roster, skipped with a warning
                /\ hist' = [h EXCEPT !.outcome[o] = "empty"]
                /\ org_idx' = org_idx + 1
                /\ UNCHANGED << pc, members >>
           ELSE /\ hist' = h
                /\ members' = roster
                /\ pc' = IF cfg.qrz # None THEN "enrich" ELSE "render"
                /\ UNCHANGED org_idx
    /\ UNCHANGED << unit_vars, cfg, pass, now, tasks, permits, results, nickname_cache,
                    cache_file, pending_files, files_by_target, bc, remote >>

\* main.rs:250-266, 119-129: render, then Ok(None) in a dry run, else the
\* PendingFile that main pushes.
render ==
    /\ pc = "render"
    /\ LET o == cur_org
           content == generate(o, members, now)
           pending == [path |-> o, content |-> content, org_label |-> o,
                       member_count |-> Len(members),
                       target |-> resolve(cfg.orgs[o].github, GlobalGitHub)]
           h == [hist EXCEPT !.rendered = @ \cup {o}]
       IN  IF dry_run
           THEN /\ hist' = [h EXCEPT !.outcome[o] = "dry_run"]
                /\ UNCHANGED pending_files
           ELSE /\ hist' = [h EXCEPT !.outcome[o] = "pending",
                                     !.queued = Append(@, pending)]
                /\ pending_files' = Append(pending_files, pending)
    /\ members' = << >>
    /\ org_idx' = org_idx + 1
    /\ pc' = "orgs"
    /\ UNCHANGED << unit_vars, cfg, pass, now, tasks, permits, results, nickname_cache,
                    cache_file, files_by_target, bc, remote >>

(***************************************************************************)
(* enrich_with_nicknames                                                   *)
(***************************************************************************)
\* Indices of the members without an unexpired cache entry (main.rs:284-297).
uncached_indices ==
    SelectSeq([i \in 1..Len(members) |-> i],
              LAMBDA i : get(nickname_cache, members[i].callsign) = None)

\* Futures the buffer_unordered adapter holds in its in-progress queue.
in_progress == { i \in DOMAIN tasks : tasks[i].st \in {"acquire", "sleep", "request"} }

\* Lookup requests sent and not yet answered.
in_flight == { i \in DOMAIN tasks : tasks[i].st = "request" }

\* NicknameCache::save: nothing when clean; else the write succeeds or fails.
save(cache, file, write_ok) ==
    IF ~cache.dirty THEN [cache |-> cache, file |-> file, wrote |-> FALSE]
    ELSE IF write_ok
    THEN [cache |-> [cache EXCEPT !.dirty = FALSE],
          file  |-> cache.entries, wrote |-> TRUE]
    ELSE [cache |-> cache, file |-> file, wrote |-> FALSE]

\* main.rs:280-321: apply the cache, collect the misses, build the stream.
enrich_start ==
    /\ pc = "enrich"
    /\ members' = [i \in 1..Len(members) |->
                     LET hit == get(nickname_cache, members[i].callsign)
                     IN  IF hit # None
                         THEN [members[i] EXCEPT !.nickname = Unwrap(hit)]
                         ELSE members[i]]
    /\ IF uncached_indices = << >>
       THEN /\ pc' = "render"
            /\ UNCHANGED << tasks, permits, results >>
       ELSE /\ tasks' = [k \in 1..Len(uncached_indices) |->
                           [callsign |-> members[uncached_indices[k]].callsign,
                            st |-> "queued", outcome |-> "none"]]
            /\ permits' = max_concurrent_lookups
            /\ results' = << >>
            /\ pc' = "lookups"
    /\ UNCHANGED << unit_vars, cfg, pass, now, org_idx, nickname_cache, cache_file,
                    pending_files, files_by_target, bc, remote, hist >>

\* buffer_unordered(max_concurrent): the next future of the stream is taken
\* into the in-progress queue while the queue holds fewer than the limit.
buffer_next ==
    /\ pc = "lookups"
    /\ Cardinality(in_progress) < max_concurrent_lookups
    /\ \E i \in DOMAIN tasks :
         /\ tasks[i].st = "queued"
         /\ \A j \in DOMAIN tasks : j < i => tasks[j].st # "queued"
         /\ tasks' = [tasks EXCEPT ![i].st = "acquire"]
    /\ UNCHANGED << unit_vars, cfg, pc, pass, now, org_idx, members, permits, results,
                    nickname_cache, cache_file, pending_files, files_by_target,
                    bc, remote, hist >>

\* main.rs:331: semaphore.acquire()
acquire(i) ==
    /\ pc = "lookups"
    /\ tasks[i].st = "acquire"
    /\ permits > 0
    /\ permits' = permits - 1
    /\ tasks' = [tasks EXCEPT ![i].st = "sleep"]
    /\ UNCHANGED << unit_vars, cfg, pc, pass, now, org_idx, members, results,
                    nickname_cache, cache_file, pending_files, files_by_target,
                    bc, remote, hist >>

\* main.rs:334-336: the 50ms delay is over, the lookup request goes out.
lookup_request(i) ==
    /\ pc = "lookups"
    /\ tasks[i].st = "sleep"
    /\ tasks' = [tasks EXCEPT ![i].st = "request"]
    /\ hist' = [hist EXCEPT !.lookups[cur_org] = @ + 1]
    /\ UNCHANGED << unit_vars, cfg, pc, pass, now, org_idx, members, permits, results,
                    nickname_cache, cache_file, pending_files, files_by_target,
                    bc, remote >>

\* Mutant: the error of one lookup ends the whole stream; the futures not yet
\* finished are dropped and no further pair is collected.
lookup_done_abort_on_error(i, outcome) ==
    /\ pc = "lookups"
    /\ tasks[i].st = "request"
    /\ IF outcome = "error"
       THEN /\ results' = results
            /\ tasks' = [j \in DOMAIN tasks |->
                           [tasks[j] EXCEPT !.st = "done",
                                            !.outcome = IF j = i THEN outcome ELSE @]]
       ELSE /\ LET nickname == IF outcome = "found" THEN Some("Jay") ELSE None
               IN  results' = Append(results, << tasks[i].callsign, nickname >>)
            /\ tasks' = [tasks EXCEPT ![i].st = "done", ![i].outcome = outcome]
    /\ permits' = permits + 1
    /\ UNCHANGED << unit_vars, cfg, pc, pass, now, org_idx, members, nickname_cache,
                    cache_file, pending_files, files_by_target, bc, remote, hist >>

\* main.rs:336-350: lookup_nickname returns; an Err becomes None. The future
\* ends, its permit is dropped and its pair is collected.
lookup_done(i, outcome) ==
    /\ pc = "lookups"
    /\ tasks[i].st = "request"
    /\ LET nickname == IF outcome = "found" THEN Some("Jay") ELSE None
       IN  results' = Append(results, << tasks[i].callsign, nickname >>)
    /\ tasks' = [tasks EXCEPT ![i].st = "done", ![i].outcome = outcome]
    /\ permits' = permits + 1
    /\ UNCHANGED << unit_vars, cfg, pc, pass, now, org_idx, members, nickname_cache,
                    cache_file, pending_files, files_by_target, bc, remote, hist >>

RECURSIVE insert_all(_, _)
insert_all(cache, rs) ==
    IF rs = << >> THEN cache
    ELSE insert_all(insert(cache, Head(rs)[1], Head(rs)[2]), Tail(rs))

\* main.rs:353-386: the stream is exhausted; insert every result into the
\* cache, save it, apply the results to the members.
enrich_finish(write_ok) ==
    /\ pc = "lookups"
    /\ \A i \in DOMAIN tasks : tasks[i].st = "done"
    /\ LET saved == save(insert_all(nickname_cache, results), cache_file, write_ok)
       IN  /\ nickname_cache' = saved.cache
           /\ cache_file' = saved.file
           /\ hist' = [hist EXCEPT !.saves = @ + (IF saved.wrote THEN 1 ELSE 0)]
    /\ members' = [i \in 1..Len(members) |->
                     IF \E k \in DOMAIN results : results[k][1] = members[i].callsign
                     THEN LET k == CHOOSE k \in DOMAIN results :
                                     results[k][1] = members[i].callsign
                          IN  [members[i] EXCEPT !.nickname = results[k][2]]
                     ELSE members[i]]
    /\ tasks' = << >>
    /\ results' = << >>
    /\ permits' = 0
    /\ pc' = "render"
    /\ UNCHANGED << unit_vars, cfg, pass, now, org_idx, pending_files, files_by_target,
                    bc, remote >>

(***************************************************************************)
(* main: grouping by destination and the commit loop                       *)
(***************************************************************************)
\* Mutant: the map entry is overwritten instead of pushed to, so a
\* destination keeps only the last of its files.
group_by_target_overwrite ==
    /\ pc = "orgs"
    /\ org_idx > Len(enabled_orgs)
    /\ IF pending_files # << >> /\ ~dry_run
       THEN /\ files_by_target' =
                 [t \in { pending_files[i].target : i \in DOMAIN pending_files } |->
                    LET fs == SelectSeq(pending_files, LAMBDA f : f.target = t)
                    IN  << fs[Len(fs)] >>]
            /\ pending_files' = << >>
            /\ pc' = "commit"
       ELSE /\ pc' = "end_pass"
            /\ UNCHANGED << files_by_target, pending_files >>
    /\ UNCHANGED << unit_vars, cfg, pass, now, org_idx, members, tasks, permits, results,
                    nickname_cache, cache_file, bc, remote, hist >>

\* main.rs:136-144: after the last organization, group the pending files by
\* target; nothing is grouped when there are none or in a dry run.
group_by_target ==
    /\ pc = "orgs"
    /\ org_idx > Len(enabled_orgs)
    /\ IF pending_files # << >> /\ ~dry_run
       THEN /\ files_by_target' =
                 [t \in { pending_files[i].target : i \in DOMAIN pending_files } |->
                    SelectSeq(pending_files, LAMBDA f : f.target = t)]
            /\ pending_files' = << >>
            /\ pc' = "commit"
       ELSE /\ pc' = "end_pass"
            /\ UNCHANGED << files_by_target, pending_files >>
    /\ UNCHANGED << unit_vars, cfg, pass, now, org_idx, members, tasks, permits, results,
                    nickname_cache, cache_file, bc, remote, hist >>

\* Mutant: the entry stays in the map.
without_nothing(map, t) == map

\* The map without the entry the loop has just consumed.
without(map, t) == [u \in DOMAIN map \ {t} |-> map[u]]

\* Where main goes once the entry of target t has been dealt with.
after_target(t) == IF DOMAIN files_by_target = {t} THEN "end_pass" ELSE "commit"

\* main.rs:147-150, 158-163: the loop takes an entry of the map (in the
\* map's arbitrary order) and builds the client; a failure is logged.
from_target(t, ok) ==
    /\ pc = "commit"
    /\ t \in DOMAIN files_by_target
    /\ LET files == files_by_target[t]
       IN  IF ~ok
           THEN \* Err(e): "Failed to create GitHub client"
                /\ hist' = [hist EXCEPT !.commit[t] = "client_error"]
                /\ files_by_target' = without(files_by_target, t)
                /\ pc' = after_target(t)
                /\ UNCHANGED bc
           ELSE IF files = << >>
           THEN \* github.rs:196-198: batch_commit returns Ok(()) at once
                /\ hist' = [hist EXCEPT !.commit[t] = "ok",
                                        !.calls = Append(@, [target |-> t, files |-> files])]
                /\ bc' = [NoCall EXCEPT !.status = "ok", !.target = t,
                                        !.head_before = remote[t].head]
                /\ files_by_target' = without(files_by_target, t)
                /\ pc' = after_target(t)
           ELSE /\ hist' = [hist EXCEPT !.commit[t] = "running",
                                        !.calls = Append(@, [target |-> t, files |-> files])]
                /\ bc' = [NoCall EXCEPT !.status = "running", !.target = t,
                                        !.files = files, !.step = "get_ref",
                                        !.head_before = remote[t].head]
                /\ pc' = "batch_commit"
                /\ UNCHANGED files_by_target
    /\ UNCHANGED << unit_vars, cfg, pass, now, org_idx, members, tasks, permits, results,
                    nickname_cache, cache_file, pending_files, remote >>

(***************************************************************************)
(* GitHubClient::batch_commit                                              *)
(***************************************************************************)
\* Mutant: main propagates the error of batch_commit with `?`, which ends
\* the process with destinations left in the map.
bc_return_propagate_error(status) ==
    /\ bc' = [bc EXCEPT !.status = status]
    /\ hist' = [hist EXCEPT !.commit[bc.target] = status]
    /\ files_by_target' = without(files_by_target, bc.target)
    /\ pc' = "done"

\* A step failed: `?` returns the error, main logs it (main.rs:151-156).
bc_return(status) ==
    /\ bc' = [bc EXCEPT !.status = status]
    /\ hist' = [hist EXCEPT !.commit[bc.target] = status]
    /\ files_by_target' = without(files_by_target, bc.target)
    /\ pc' = after_target(bc.target)

bc_vars == << unit_vars, cfg, pass, now, org_idx, members, tasks, permits, results,
              nickname_cache, cache_file, pending_files >>

\* github.rs:212-224: 1. get the branch ref.
get_ref(ok) ==
    /\ pc = "batch_commit" /\ bc.step = "get_ref"
    /\ IF ok
       THEN /\ bc' = [bc EXCEPT !.head_sha = Some(remote[bc.target].head),
                                !.step = "get_commit"]
            /\ UNCHANGED << pc, files_by_target, hist >>
       ELSE bc_return("err")
    /\ UNCHANGED << bc_vars, remote >>

\* github.rs:226-238: 2. get the tree of the HEAD commit.
get_commit(ok) ==
    /\ pc = "batch_commit" /\ bc.step = "get_commit"
    /\ IF ok
       THEN /\ bc' = [bc EXCEPT !.base_tree = Some(remote[bc.target].tree),
                                !.step = "create_blob"]
            /\ UNCHANGED << pc, files_by_target, hist >>
       ELSE bc_return("err")
    /\ UNCHANGED << bc_vars, remote >>

\* Mutant: a failed blob request ends the loop instead of the call.
create_blob_break_on_error(ok) ==
    /\ pc = "batch_commit" /\ bc.step = "create_blob"
    /\ IF ok
       THEN bc' = [bc EXCEPT !.blobs = @ + 1,
                             !.step = IF bc.blobs + 1 = Len(bc.files)
                                      THEN "create_tree" ELSE "create_blob"]
       ELSE bc' = [bc EXCEPT !.step = "create_tree"]
    /\ UNCHANGED << unit_vars, pc, files_by_target, hist, cfg, pass, now, org_idx,
                    members, tasks, permits, results, nickname_cache, cache_file,
                    pending_files, remote >>

\* github.rs:240-262: 3. one blob per file.
create_blob(ok) ==
    /\ pc = "batch_commit" /\ bc.step = "create_blob"
    /\ IF ok
       THEN /\ bc' = [bc EXCEPT !.blobs = @ + 1,
                                !.step = IF bc.blobs + 1 = Len(bc.files)
                                         THEN "create_tree" ELSE "create_blob"]
            /\ UNCHANGED << pc, files_by_target, hist >>
       ELSE bc_return("err")
    /\ UNCHANGED << bc_vars, remote >>

\* github.rs:264-276: 4. the new tree: the base tree with the files' blobs.
create_tree(ok) ==
    /\ pc = "batch_commit" /\ bc.step = "create_tree"
    /\ IF ok
       THEN /\ bc' = [bc EXCEPT
                        !.tree = Some([p \in Orgs |->
                                   IF \E i \in DOMAIN bc.files : bc.files[i].path = p
                                   THEN Some(bc.files[CHOOSE i \in DOMAIN bc.files :
                                                        bc.files[i].path = p].content)
                                   ELSE Unwrap(bc.base_tree)[p]]),
                        !.step = "create_commit"]
            /\ UNCHANGED << pc, files_by_target, hist >>
       ELSE bc_return("err")
    /\ UNCHANGED << bc_vars, remote >>

\* github.rs:278-298: 5. the commit on top of HEAD.
create_commit(ok) ==
    /\ pc = "batch_commit" /\ bc.step = "create_commit"
    /\ IF ok
       THEN /\ bc' = [bc EXCEPT !.commit = Some([sha |-> Unwrap(bc.head_sha) + 1,
                                                 tree |-> Unwrap(bc.tree)]),
                                !.step = "update_ref"]
            /\ UNCHANGED << pc, files_by_target, hist >>
       ELSE bc_return("err")
    /\ UNCHANGED << bc_vars, remote >>

\* github.rs:300-320: 6. move the branch ref. The request is answered with
\* success, is rejected, or is applied by the host while the client still
\* gets an error (the response is lost or does not parse).
update_ref(outcome) ==
    /\ pc = "batch_commit" /\ bc.step = "update_ref"
    /\ remote' = IF outcome = "rejected" THEN remote
                 ELSE [remote EXCEPT ![bc.target] =
                         [head |-> Unwrap(bc.commit).sha, tree |-> Unwrap(bc.commit).tree]]
    /\ bc' = [bc EXCEPT !.ref_updates = @ + 1,
                        !.status = IF outcome = "ok" THEN "ok" ELSE "err"]
    /\ hist' = [hist EXCEPT !.commit[bc.target] = IF outcome = "ok" THEN "ok" ELSE "err"]
    /\ files_by_target' = without(files_by_target, bc.target)
    /\ pc' = after_target(bc.target)
    /\ UNCHANGED bc_vars

(***************************************************************************)
(* main: end of the pass                                                   *)
(***************************************************************************)
\* main.rs:168-177: run-once leaves the loop and main returns, which drops
\* the cache (Drop saves a dirty cache); otherwise the sleep begins.
end_pass(write_ok) ==
    /\ pc = "end_pass"
    /\ IF run_once
       THEN LET saved == save(nickname_cache, cache_file, write_ok)
            IN  /\ nickname_cache' = saved.cache
                /\ cache_file' = saved.file
                /\ pc' = "done"
       ELSE /\ pc' = "sleep"
            /\ UNCHANGED << nickname_cache, cache_file >>
    /\ UNCHANGED << unit_vars, cfg, pass, now, org_idx, members, tasks, permits, results,
                    pending_files, files_by_target, bc, remote, hist >>

\* main.rs:173-174: the sleep is over, the loop starts its next iteration.
sleep ==
    /\ pc = "sleep"
    /\ pass < MaxPasses
    /\ now' = now + 1
    /\ pc' = "loop"
    /\ UNCHANGED << unit_vars, cfg, pass, org_idx, members, tasks, permits, results,
                    nickname_cache, cache_file, pending_files, files_by_target,
                    bc, remote, hist >>

FetchOutcomes ==
    { << "fetch_error", << >> >>, << "parse_error", << >> >> }
      \cup { << "ok", r >> : r \in Rosters }

Next ==
    \/ main_start
    \/ run_connectivity_check
    \/ \E f \in FetchOutcomes : fetch_members(f[1], f[2])
    \/ enrich_start
    \/ buffer_next
    \/ \E i \in DOMAIN tasks : acquire(i)
    \/ \E i \in DOMAIN tasks : lookup_request(i)
    \/ \E i \in DOMAIN tasks, outcome \in {"found", "not_found", "error"} :
         lookup_done(i, outcome)
    \/ \E write_ok \in BOOLEAN : enrich_finish(write_ok)
    \/ render
    \/ group_by_target
    \/ \E t \in Targets, ok \in BOOLEAN : from_target(t, ok)
    \/ \E ok \in BOOLEAN : get_ref(ok)
    \/ \E ok \in BOOLEAN : get_commit(ok)
    \/ \E ok \in BOOLEAN : create_blob(ok)
    \/ \E ok \in BOOLEAN : create_tree(ok)
    \/ \E ok \in BOOLEAN : create_commit(ok)
    \/ \E outcome \in {"ok", "rejected", "applied_error"} : update_ref(outcome)
    \/ \E write_ok \in BOOLEAN : end_pass(write_ok)
    \/ sleep

Spec == Init /\ [][Next]_vars

(***************************************************************************)
(* Observations used by the properties                                     *)
(***************************************************************************)
\* The organization loop of the current pass is running.
InOrgPhase == pc \in {"orgs", "enrich", "lookups", "render"}

\* The organization loop of the current pass is over.
OrgsProcessed ==
    \/ pc = "orgs" /\ org_idx > Len(enabled_orgs)
    \/ pc \in {"commit", "batch_commit", "end_pass", "sleep"}
    \/ pc = "done" /\ pass > 0

\* The commit phase of the current pass is over.
PassFinished == pc \in {"end_pass", "sleep"} \/ (pc = "done" /\ pass > 0)

\* The files of this pass that resolved to destination t, in push order.
QueuedFor(t) == SelectSeq(hist.queued, LAMBDA f : f.target = t)

\* The batch_commit calls of this pass to destination t.
CallsTo(t) == SelectSeq(hist.calls, LAMBDA c : c.target = t)

\* The file currently at the destination of a pending file.
RemoteFile(f) == remote[f.target].tree[f.path]

\* Number of member lines in a rendered file.
Entries(content) == Len(SelectSeq(content, LAMBDA l : l.kind = "entry"))

FetchErrors == {"fetch_error", "parse_error"}

(***************************************************************************)
(* C1: a PendingFile is queued only when its content differs from the file *)
(* at its destination with the generation-timestamp line ignored, so a     *)
(* pass over an unchanged roster queues (and commits) nothing.             *)
(* prepare_org_update never compares: this fails on the code.              *)
(***************************************************************************)
C1_QueuedOnlyIfChanged ==
    \A i \in DOMAIN pending_files :
        content_changed(RemoteFile(pending_files[i]), pending_files[i].content)

(***************************************************************************)
(* C2: in a pass every enabled organization's pipeline is attempted        *)
(* exactly once (never twice; once each when the loop is over, disabled    *)
(* ones never), and an organization that ended in a fetch or parse error   *)
(* leaves the pending files of the others in place: during the loop the    *)
(* pending files are exactly the files pushed so far, one for every        *)
(* organization that rendered, none for one that failed.                   *)
(***************************************************************************)
C2_EachOrgOnceErrorsIsolated ==
    /\ \A o \in Orgs : hist.attempts[o] <= (IF cfg.orgs[o].enabled THEN 1 ELSE 0)
    /\ OrgsProcessed =>
         \A o \in Orgs : cfg.orgs[o].enabled => hist.attempts[o] = 1
    /\ InOrgPhase => pending_files = hist.queued
    /\ \A o \in Orgs :
         /\ hist.outcome[o] \in FetchErrors =>
              \A i \in DOMAIN hist.queued : hist.queued[i].path # o
         /\ hist.outcome[o] = "pending" =>
              Cardinality({ i \in DOMAIN hist.queued : hist.queued[i].path = o }) = 1

\* One organization failed, another one of the same pass has its pending
\* file, and the loop is over.
C2_Witness ==
    /\ OrgsProcessed
    /\ \E o1, o2 \in Orgs :
         /\ hist.outcome[o1] \in FetchErrors
         /\ hist.outcome[o2] = "pending"
         /\ \E i \in DOMAIN hist.queued : hist.queued[i].path = o2

(***************************************************************************)
(* C3 as stated: once the pass is over, every destination with a pending   *)
(* file got exactly one batch_commit call carrying exactly its files, a    *)
(* destination without pending files got none, and no call is made while   *)
(* the organization loop runs. Fails when the client of a destination      *)
(* cannot be created: that destination gets no call.                       *)
(***************************************************************************)
C3_OneCallPerDestination ==
    /\ InOrgPhase => hist.calls = << >>
    /\ \A t \in Targets :
         /\ Len(CallsTo(t)) <= 1
         /\ \A i \in DOMAIN hist.calls :
              hist.calls[i].target = t => hist.calls[i].files = QueuedFor(t)
         /\ QueuedFor(t) = << >> => CallsTo(t) = << >>
         /\ (PassFinished /\ QueuedFor(t) # << >>) => Len(CallsTo(t)) = 1

(***************************************************************************)
(* C3 amended: as above, but a destination with pending files gets its one *)
(* call only if its client could be created; when from_target fails it     *)
(* gets none.                                                              *)
(***************************************************************************)
C3_OneCallPerDestinationWithClient ==
    /\ InOrgPhase => hist.calls = << >>
    /\ \A t \in Targets :
         /\ Len(CallsTo(t)) <= 1
         /\ \A i \in DOMAIN hist.calls :
              hist.calls[i].target = t =>
                 /\ hist.calls[i].files = QueuedFor(t)
                 /\ hist.calls[i].files # << >>
         /\ QueuedFor(t) = << >> => CallsTo(t) = << >>
         /\ (PassFinished /\ QueuedFor(t) # << >>) =>
               Len(CallsTo(t)) = (IF hist.commit[t] = "client_error" THEN 0 ELSE 1)

\* Two organizations resolved to one destination and were committed together.
C3_Witness ==
    /\ PassFinished
    /\ \E i \in DOMAIN hist.calls :
         /\ Len(hist.calls[i].files) = 2
         /\ hist.calls[i].files[1].path # hist.calls[i].files[2].path
         /\ hist.commit[hist.calls[i].target] = "ok"

(***************************************************************************)
(* C4 as stated: per batch_commit call at most one ref update, issued only *)
(* after the five steps before it succeeded; a call that returns an error  *)
(* issued no ref update and left the branch pointer as it was. Fails when  *)
(* the failing step is the ref update itself.                              *)
(***************************************************************************)
PreparedForRefUpdate ==
    /\ bc.head_sha # None
    /\ bc.base_tree # None
    /\ bc.blobs = Len(bc.files)
    /\ bc.tree # None
    /\ bc.commit # None

C4_AnyFailureIssuesNoRefUpdate ==
    /\ bc.ref_updates <= 1
    /\ bc.ref_updates = 1 => PreparedForRefUpdate
    /\ bc.status = "err" =>
         /\ bc.ref_updates = 0
         /\ remote[bc.target].head = bc.head_before

(***************************************************************************)
(* C4 amended: at most one ref update per call, only after the five steps  *)
(* before it succeeded; a call that fails in one of those five steps       *)
(* returns an error, issued no ref update and left the branch pointer as   *)
(* it was; while a call runs or after it failed before the ref update the  *)
(* pointer is the one found at the start of the call.                      *)
(***************************************************************************)
C4_FailureBeforeRefUpdateLeavesBranch ==
    /\ bc.ref_updates <= 1
    /\ bc.ref_updates = 1 => PreparedForRefUpdate /\ bc.step = "update_ref"
    /\ (bc.status = "err" /\ bc.step # "update_ref") =>
         /\ bc.ref_updates = 0
         /\ remote[bc.target].head = bc.head_before
    /\ bc.status = "running" =>
         /\ bc.ref_updates = 0
         /\ remote[bc.target].head = bc.head_before
    /\ bc.status = "ok" =>
         /\ bc.ref_updates = 1
         /\ remote[bc.target].head = Unwrap(bc.commit).sha

\* The call failed when creating the commit, with every blob and the tree
\* already created.
C4_Witness ==
    /\ bc.status = "err"
    /\ bc.step = "create_commit"
    /\ bc.blobs = Len(bc.files)
    /\ bc.tree # None
    /\ bc.ref_updates = 0

(***************************************************************************)
(* C5: a failed batch commit or a failed client creation for one           *)
(* destination does not keep the other destinations from being attempted   *)
(* and does not abort the pass: when the pass is over every destination    *)
(* with pending files had its entry of the commit loop run (client built,  *)
(* and batch_commit called when the client was built), and while the       *)
(* commit loop runs the destinations not yet attempted are still in the    *)
(* map.                                                                    *)
(***************************************************************************)
C5_OtherDestinationsStillAttempted ==
    /\ PassFinished =>
         \A t \in Targets :
            QueuedFor(t) # << >> =>
               /\ hist.commit[t] \in {"client_error", "ok", "err"}
               /\ hist.commit[t] # "client_error" => Len(CallsTo(t)) = 1
    /\ pc \in {"commit", "batch_commit"} =>
         \A t \in Targets :
            (QueuedFor(t) # << >> /\ hist.commit[t] = "none") =>
               t \in DOMAIN files_by_target

\* The first destination of the commit loop failed (client or commit) and
\* the second one was committed all the same.
C5_Witness ==
    /\ PassFinished
    /\ \E t1, t2 \in Targets :
         /\ t1 # t2
         /\ hist.commit[t1] = "err"
         /\ hist.commit[t2] = "ok"
         /\ Len(hist.calls) = 2
         /\ hist.calls[1].target = t1
         /\ hist.calls[2].target = t2

(***************************************************************************)
(* C6: with --dry-run no client is built, no batch_commit call is made and *)
(* no branch moves, in any pass and whatever the organizations' pipelines  *)
(* did; fetch, enrichment (cache insert and save) and render still run.    *)
(***************************************************************************)
C6_DryRunNeverCommits ==
    cfg.dry_run =>
       /\ hist.calls = << >>
       /\ \A t \in Targets : hist.commit[t] = "none" /\ remote[t].head = 0
       /\ bc.status = "idle"
       /\ pc \notin {"commit", "batch_commit"}

\* A dry-run pass that looked nicknames up, saved the cache and rendered.
C6_Witness ==
    /\ cfg.dry_run
    /\ PassFinished
    /\ hist.saves > 0
    /\ \E o \in Orgs : o \in hist.rendered /\ hist.lookups[o] > 0
                       /\ hist.outcome[o] = "dry_run"
    /\ \E c \in Callsigns : nickname_cache.entries[c] # None /\ cache_file[c] # None

(***************************************************************************)
(* C7: an organization whose roster parses to no member is skipped without *)
(* an error: no lookup is issued for it, it is not rendered, no            *)
(* PendingFile is produced for it, so no file without members is ever      *)
(* queued or put at a destination.                                         *)
(***************************************************************************)
C7_EmptyRosterSkipped ==
    /\ \A o \in Orgs :
         hist.outcome[o] = "empty" =>
            /\ hist.lookups[o] = 0
            /\ o \notin hist.rendered
            /\ \A i \in DOMAIN hist.queued : hist.queued[i].path # o
    /\ \A i \in DOMAIN hist.queued :
         hist.queued[i].member_count > 0 /\ Entries(hist.queued[i].content) > 0
    /\ \A t \in Targets, p \in Orgs :
         remote[t].tree[p] # None => Entries(Unwrap(remote[t].tree[p])) > 0

\* In a later pass the roster is empty: the organization is skipped and the
\* file committed before is still at its destination.
C7_Witness ==
    /\ PassFinished
    /\ \E o \in Orgs :
         /\ hist.outcome[o] = "empty"
         /\ remote[resolve(cfg.orgs[o].github, GlobalGitHub)].tree[o] # None

(***************************************************************************)
(* C8: in daemon mode every pass completes and is followed by another one, *)
(* whatever failed in it: a started pass always has a next step until it   *)
(* sleeps, and the sleep ends (the model stops exploring at MaxPasses).    *)
(* Fails on the code: with max_concurrent_lookups = 0 the enrichment never *)
(* starts a lookup and never returns.                                      *)
(***************************************************************************)
C8_EveryPassCompletes ==
    (~run_once /\ pass > 0) =>
       \/ ENABLED Next
       \/ pc = "sleep" /\ pass = MaxPasses

(***************************************************************************)
(* C9: with run-once set (by --once or by the configuration) and an        *)
(* organization to work on, the process makes one pass with its commit     *)
(* phase and then ends: it never starts a second pass, it ends only after  *)
(* the commit loop of pass 1 has consumed every destination, and until it  *)
(* has ended it always has a next step. Fails on the code for the same     *)
(* reason as C8.                                                           *)
(***************************************************************************)
C9_RunOnceOnePassThenExit ==
    ((cfg.once \/ cfg.run_once) /\ enabled_orgs # << >>) =>
       /\ pass <= 1
       /\ pc = "done" =>
            /\ pass = 1
            /\ DOMAIN files_by_target = {}
            /\ \A t \in Targets : QueuedFor(t) # << >> => hist.commit[t] # "none"
       /\ pc = "done" \/ ENABLED Next

(***************************************************************************)
(* C10: while an organization is enriched, the lookup requests in flight   *)
(* never exceed the configured max_concurrent_lookups N, for every N >= 1  *)
(* (and the default when none is configured).                              *)
(***************************************************************************)
C10_InFlightAtMostN ==
    cfg.qrz # None =>
       LET configured == Unwrap(cfg.qrz).max_concurrent_lookups
       IN  /\ \A n \in 1..MaxN :
                configured = Some(n) => Cardinality(in_flight) <= n
           /\ configured = None =>
                Cardinality(in_flight) <= DEFAULT_MAX_CONCURRENT_LOOKUPS

\* N lookups are in flight while a further callsign still waits its turn.
C10_Witness ==
    /\ cfg.qrz # None
    /\ \E n \in 1..MaxN :
         /\ Unwrap(cfg.qrz).max_concurrent_lookups = Some(n)
         /\ Cardinality(in_flight) = n
         /\ \E i \in DOMAIN tasks : tasks[i].st = "queued"

\* Observation: the callsign has a cache entry within its time to live.
Cached(callsign) ==
    /\ nickname_cache.entries[callsign] # None
    /\ now - Unwrap(nickname_cache.entries[callsign]).cached_at <= DEFAULT_TTL_DAYS

\* The callsigns cached in the current pass, and the lookup requests that
\* the current enrichment has issued.
CachedThisPass ==
    { c \in Callsigns :
        Cached(c) /\ Unwrap(nickname_cache.entries[c]).cached_at = now }
Requested == { i \in DOMAIN tasks : tasks[i].st \in {"request", "done"} }

\* The lookup requests issued in the current pass, over all organizations.
RECURSIVE LookupsOf(_)
LookupsOf(orgs) ==
    IF orgs = {} THEN 0
    ELSE LET o == CHOOSE o \in orgs : TRUE
         IN  hist.lookups[o] + LookupsOf(orgs \ {o})

(***************************************************************************)
(* C35: enrichment is cache-first. The lookups of an organization are set  *)
(* up exactly for the members whose callsign has no unexpired cache entry  *)
(* when its enrichment starts; a lookup request goes out only for a        *)
(* callsign without an unexpired entry, once per callsign; and the lookup  *)
(* requests of a pass are as many as the callsigns cached in that pass, so *)
(* a callsign shared by two organizations, or cached in an earlier pass,   *)
(* is not looked up again.                                                 *)
(***************************************************************************)
C35_CacheFirst ==
    /\ [](/\ pc = "lookups" =>
                /\ \A i \in DOMAIN tasks : ~Cached(tasks[i].callsign)
                /\ \A i, j \in DOMAIN tasks :
                       tasks[i].callsign = tasks[j].callsign => i = j
          /\ pc # "loop" =>
                LookupsOf(Orgs) =
                    Cardinality(CachedThisPass)
                        + (IF pc = "lookups" THEN Cardinality(Requested) ELSE 0))
    /\ [][/\ (pc = "enrich" /\ pc' = "lookups") =>
               { tasks'[k].callsign : k \in DOMAIN tasks' } =
                   { members[i].callsign : i \in DOMAIN members } \ 
                       { c \in Callsigns : Cached(c) }
          /\ (pc = "enrich" /\ pc' = "render") =>
               \A i \in DOMAIN members : Cached(members[i].callsign)
          /\ \A i \in DOMAIN tasks :
               (pc = "lookups" /\ pc' = "lookups" /\ tasks[i].st = "sleep"
                   /\ tasks'[i].st = "request") =>
                  /\ ~Cached(tasks[i].callsign)
                  /\ hist'.lookups[cur_org] = hist.lookups[cur_org] + 1]_vars

\* A later pass enriches a roster of two callsigns of which one was cached
\* in an earlier pass: one lookup request is out, for the other callsign.
C35_Witness ==
    /\ pass = 2
    /\ pc = "lookups"
    /\ Len(members) = 2
    /\ Len(tasks) = 1
    /\ tasks[1].st = "request"
    /\ \E i \in DOMAIN members :
         /\ Cached(members[i].callsign)
         /\ members[i].callsign \notin CachedThisPass

\* A step of enrich_with_nicknames after the stream is built.
enrichment_step ==
    \/ buffer_next
    \/ \E i \in DOMAIN tasks : acquire(i)
    \/ \E i \in DOMAIN tasks : lookup_request(i)
    \/ \E i \in DOMAIN tasks, outcome \in {"found", "not_found", "error"} :
         lookup_done(i, outcome)
    \/ \E write_ok \in BOOLEAN : enrich_finish(write_ok)

(***************************************************************************)
(* C38: the enrichment of an organization with an uncached callsign        *)
(* terminates for every max_concurrent_lookups the configuration can       *)
(* supply, 0 included: while it runs it always has a next step, provided   *)
(* the requests in flight return, and when every callsign is done each has *)
(* its result and every permit is back. Fails on the code: with            *)
(* max_concurrent_lookups = 0 no lookup is ever started.                   *)
(***************************************************************************)
C38_EnrichmentTerminates ==
    pc = "lookups" =>
        /\ ENABLED enrichment_step
        /\ (\A i \in DOMAIN tasks : tasks[i].st = "done") =>
               /\ Len(results) = Len(tasks)
               /\ permits = max_concurrent_lookups

\* Observation: the files a batch commit of the pass was or is to be called
\* with, and the pass a file was rendered in (the clock of its timestamp
\* line advances with every sleep).
FilesInHand ==
    { pending_files[i] : i \in DOMAIN pending_files }
        \cup UNION { { files_by_target[t][i] : i \in DOMAIN files_by_target[t] } :
                       t \in DOMAIN files_by_target }
        \cup { bc.files[i] : i \in DOMAIN bc.files }
        \cup UNION { { hist.calls[k].files[i] : i \in DOMAIN hist.calls[k].files } :
                       k \in DOMAIN hist.calls }
RenderedAt(f) ==
    LET l == CHOOSE l \in { f.content[i] : i \in DOMAIN f.content } :
                 IsGeneratedLine(l)
    IN  l.ts
CommitFailed(t) == hist.commit[t] \notin { "none", "running", "ok" }

(***************************************************************************)
(* C40: pending files live only within the pass that produced them. When a *)
(* pass has ended, and when the next one starts, no pending file and no    *)
(* destination entry is left, whatever the batch commits returned; within  *)
(* a pass every file pending, grouped or handed to a batch commit was      *)
(* rendered in that pass.                                                  *)
(***************************************************************************)
C40_PendingFilesWithinPass ==
    /\ pc \in { "end_pass", "sleep", "loop", "done" } =>
           /\ pending_files = << >>
           /\ DOMAIN files_by_target = {}
    /\ (pass > 0 /\ pc # "loop") =>
           \A f \in FilesInHand :
               /\ RenderedAt(f) = now
               /\ \E k \in DOMAIN hist.queued : hist.queued[k] = f
    /\ (pc = "orgs" /\ org_idx = 1 /\ hist.attempts[cur_org] = 0) =>
           pending_files = << >>

\* The second pass is about to start after a batch commit of the first
\* pass has failed: nothing is pending.
C40_Witness ==
    /\ pc = "loop"
    /\ pass = 1
    /\ now = 1
    /\ \E t \in Targets :
         /\ CommitFailed(t)
         /\ CallsTo(t) # << >>
         /\ CallsTo(t)[1].files # << >>

(***************************************************************************)
(* QrzClient (qrz.rs): the cached session token and lookup_nickname, for   *)
(* lookup calls that run concurrently as the futures of the enrichment     *)
(* stream do. Every await on the network is a step of its own.             *)
(***************************************************************************)
NumLookups == 2     \* lookup_nickname calls that run concurrently

\* A lookup_nickname call that has not started: its position, the
\* retry_count of lookup_nickname_inner, the token in hand, the requests it
\* has sent so far (kind, token carried, answer) and its return value.
NewCall ==
    [pc |-> "enter", retry_count |-> 0, key |-> None, trace |-> << >>,
     result |-> "none"]

\* A client that is new (no session), or that holds the token of an earlier
\* pass; one or more calls about to run; a service that answers or is silent.
InitQrz ==
    /\ MainIdle /\ FetchIdle /\ ParseIdle /\ StoreIdle /\ EvalIdle
    /\ \E k \in 0..1 :
         /\ session_key = (IF k = 0 THEN None ELSE Some(k))
         /\ qrz_server \in [issued : {k}, answers : BOOLEAN]
    /\ calls \in { [i \in 1..n |-> NewCall] : n \in 1..NumLookups }

\* The request a call sends, appended to its trace.
sent(call, kind, key) ==
    Append(call.trace, [kind |-> kind, key |-> key, resp |-> "pending"])

\* The answer to the request in flight, recorded in the trace.
answered(call, resp) ==
    [call.trace EXCEPT ![Len(call.trace)].resp = resp]

\* Mutant: one more retry is allowed.
retries_exhausted_late(retry_count) == retry_count > 2

\* qrz.rs:100-102: the guard at the top of lookup_nickname_inner.
retries_exhausted(retry_count) == retry_count > 1

\* qrz.rs:89-92: clear_session stores None whatever the cache holds.
clear_session == None

\* qrz.rs:99-111 with get_session_key's read of the cache (71-78): bail when
\* the retries are used up; with a cached token send the lookup request,
\* otherwise send the authentication request of login (30-41).
lookup_nickname_inner(i) ==
    /\ calls[i].pc = "enter"
    /\ calls' =
         IF retries_exhausted(calls[i].retry_count)
         THEN [calls EXCEPT ![i].pc = "done", ![i].result = "Err(retries)"]
         ELSE IF session_key # None
         THEN [calls EXCEPT ![i].pc = "lookup", ![i].key = session_key,
                            ![i].trace = sent(calls[i], "lookup", session_key)]
         ELSE [calls EXCEPT ![i].pc = "login",
                            ![i].trace = sent(calls[i], "login", None)]
    /\ UNCHANGED << session_key, qrz_server, main_vars, fetch, parse, store, eval >>

\* Mutant: a rejected authentication is tried again.
login_again_on_error(i, outcome) ==
    /\ calls[i].pc = "login"
    /\ qrz_server.answers
    /\ IF outcome = "ok"
       THEN LET key == Some(qrz_server.issued + 1)
                got == [calls[i] EXCEPT !.trace = answered(calls[i], "ok")]
            IN  /\ qrz_server' = [qrz_server EXCEPT !.issued = @ + 1]
                /\ session_key' = key
                /\ calls' = [calls EXCEPT ![i] =
                               [got EXCEPT !.pc = "lookup", !.key = key,
                                           !.trace = sent(got, "lookup", key)]]
       ELSE /\ calls' = [calls EXCEPT ![i].pc = "enter",
                                      ![i].retry_count = @ + 1,
                                      ![i].trace = answered(calls[i], outcome)]
            /\ UNCHANGED << session_key, qrz_server >>
    /\ UNCHANGED << main_vars, fetch, parse, store, eval >>

\* qrz.rs:30-69, 80-87 and 104-111: the answer to the authentication
\* request. A key is stored in the cache and the lookup request goes out
\* with it; an <Error> answer or a transport failure is returned by `?`
\* through get_session_key and lookup_nickname_inner.
login(i, outcome) ==
    /\ calls[i].pc = "login"
    /\ qrz_server.answers
    /\ IF outcome = "ok"
       THEN LET key == Some(qrz_server.issued + 1)
                got == [calls[i] EXCEPT !.trace = answered(calls[i], "ok")]
            IN  /\ qrz_server' = [qrz_server EXCEPT !.issued = @ + 1]
                /\ session_key' = key
                /\ calls' = [calls EXCEPT ![i] =
                               [got EXCEPT !.pc = "lookup", !.key = key,
                                           !.trace = sent(got, "lookup", key)]]
       ELSE /\ calls' = [calls EXCEPT ![i].pc = "done",
                                      ![i].result = "Err(login)",
                                      ![i].trace = answered(calls[i], outcome)]
            /\ UNCHANGED << session_key, qrz_server >>
    /\ UNCHANGED << main_vars, fetch, parse, store, eval >>

\* qrz.rs:113-140: the answer to the lookup request. A transport failure is
\* returned by `?`; a session error clears the cache and recurses with
\* retry_count + 1; otherwise the nickname (or its absence) is returned.
lookup_response(i, outcome) ==
    /\ calls[i].pc = "lookup"
    /\ qrz_server.answers
    /\ IF outcome = "expired"
       THEN /\ session_key' = clear_session
            /\ calls' = [calls EXCEPT ![i].pc = "enter",
                                      ![i].retry_count = @ + 1,
                                      ![i].trace = answered(calls[i], outcome)]
       ELSE /\ calls' = [calls EXCEPT ![i].pc = "done",
                                      ![i].result =
                                          CASE outcome = "found"     -> "Ok(Some)"
                                            [] outcome = "not_found" -> "Ok(None)"
                                            [] OTHER                 -> "Err(transport)",
                                      ![i].trace = answered(calls[i], outcome)]
            /\ UNCHANGED session_key
    /\ UNCHANGED << qrz_server, main_vars, fetch, parse, store, eval >>

NextQrz ==
    \/ \E i \in DOMAIN calls : lookup_nickname_inner(i)
    \/ \E i \in DOMAIN calls, outcome \in {"ok", "rejected", "transport"} :
         login(i, outcome)
    \/ \E i \in DOMAIN calls,
          outcome \in {"found", "not_found", "expired", "transport"} :
         lookup_response(i, outcome)

SpecQrz == InitQrz /\ [][NextQrz]_vars

\* The requests of one kind a call has sent, in order.
Requests(i, kind) == SelectSeq(calls[i].trace, LAMBDA r : r.kind = kind)

\* All calls have returned.
AllReturned == \A i \in DOMAIN calls : calls[i].pc = "done"

(***************************************************************************)
(* C11: one lookup_nickname call sends at most two lookup requests. A      *)
(* second request is sent only after the first was answered with a session *)
(* error, the step that takes that answer leaves the cache empty, and the  *)
(* second request carries a token other than the one that was refused.     *)
(* After two session errors the call returns an error and sends nothing    *)
(* more.                                                                   *)
(***************************************************************************)
C11_AtMostTwoLookupRequests ==
    /\ [](\A i \in DOMAIN calls :
            LET lookups == Requests(i, "lookup")
            IN  /\ Len(lookups) <= 2
                /\ Len(lookups) = 2 =>
                     /\ lookups[1].resp = "expired"
                     /\ lookups[2].key # lookups[1].key
                     /\ calls[i].retry_count >= 1
                /\ (Len(lookups) = 2 /\ lookups[2].resp = "expired") =>
                     /\ calls[i].pc \in {"enter", "done"}
                     /\ calls[i].pc = "done" => calls[i].result = "Err(retries)")
    /\ [][\A i \in DOMAIN calls :
            calls'[i].retry_count > calls[i].retry_count =>
                /\ session_key' = None
                /\ calls'[i].retry_count = calls[i].retry_count + 1]_vars

\* A call that met two session errors in a row has returned the error after
\* exactly two lookup requests, the second with a newer token.
C11_Witness ==
    \E i \in DOMAIN calls :
        LET lookups == Requests(i, "lookup")
        IN  /\ calls[i].pc = "done"
            /\ calls[i].result = "Err(retries)"
            /\ Len(lookups) = 2
            /\ lookups[1].resp = "expired" /\ lookups[2].resp = "expired"
            /\ lookups[1].key # lookups[2].key

\* The authentication requests sent by all calls, and those answered with a
\* key.
LoginRequests ==
    { << i, k >> \in (DOMAIN calls) \X (1..4) :
        k \in DOMAIN calls[i].trace /\ calls[i].trace[k].kind = "login" }
LoginsOk == { r \in LoginRequests : calls[r[1]].trace[r[2]].resp = "ok" }

\* The client started without a session: every token the service has issued
\* was issued to one of these calls.
StartedWithoutSession == qrz_server.issued = Cardinality(LoginsOk)

\* No call has been answered with a session error.
NoExpirySignal ==
    \A i \in DOMAIN calls : \A k \in DOMAIN calls[i].trace :
        calls[i].trace[k].resp # "expired"

(***************************************************************************)
(* C12: starting without a cached session and with no session error, the   *)
(* concurrent lookup calls send one authentication request between them    *)
(* and all their lookup requests carry the same token.                     *)
(***************************************************************************)
C12_OneAuthenticationShared ==
    (StartedWithoutSession /\ NoExpirySignal) =>
        /\ Cardinality(LoginRequests) <= 1
        /\ \A i, j \in DOMAIN calls :
             \A a \in DOMAIN Requests(i, "lookup"), b \in DOMAIN Requests(j, "lookup") :
                 Requests(i, "lookup")[a].key = Requests(j, "lookup")[b].key

(***************************************************************************)
(* C13: when an authentication request of a lookup_nickname call is        *)
(* rejected, that request is the last the call sends (no second            *)
(* authentication, no lookup request), the call returns an error, and the  *)
(* step that takes the rejection leaves the cached session as it was:      *)
(* absent, when no other call runs.                                        *)
(***************************************************************************)
C13_RejectedAuthenticationIsFinal ==
    /\ [](\A i \in DOMAIN calls : \A k \in DOMAIN calls[i].trace :
            (calls[i].trace[k].kind = "login" /\ calls[i].trace[k].resp = "rejected") =>
                /\ k = Len(calls[i].trace)
                /\ calls[i].pc = "done"
                /\ calls[i].result = "Err(login)"
                /\ Len(calls) = 1 => session_key = None)
    /\ [][\A i \in DOMAIN calls :
            (calls[i].pc = "login" /\ calls'[i].pc # "login"
               /\ calls'[i].trace[Len(calls'[i].trace)].resp = "rejected") =>
                session_key' = session_key]_vars

\* A call whose re-authentication after a session error was rejected: it
\* has returned the error, and the rejected request is its last.
C13_Witness ==
    \E i \in DOMAIN calls :
        /\ calls[i].pc = "done" /\ calls[i].result = "Err(login)"
        /\ Len(calls[i].trace) >= 2
        /\ calls[i].trace[Len(calls[i].trace)] =
               [kind |-> "login", key |-> None, resp |-> "rejected"]
        /\ session_key = None

(***************************************************************************)
(* Enrichment results (main.rs:336-380)                                    *)
(***************************************************************************)
\* The pairs collected for a callsign.
ResultsFor(callsign) == { k \in DOMAIN results : results[k][1] = callsign }

\* The lookup futures that have finished, by outcome.
Finished(outcome) ==
    { i \in DOMAIN tasks : tasks[i].st = "done" /\ tasks[i].outcome = outcome }

\* The stream is exhausted and its results are being applied.
EnrichmentApplied == pc = "lookups" /\ pc' = "render"

(***************************************************************************)
(* C14: a failed lookup leaves that member's nickname absent and does not  *)
(* abort the batch: every finished lookup has contributed exactly one pair *)
(* carrying the result of its own lookup (a nickname when found, none when *)
(* not found or failed), and when the results are applied every looked-up  *)
(* member carries the result of its own lookup.                            *)
(***************************************************************************)
C14_FailedLookupIsolated ==
    /\ [](pc = "lookups" =>
            \A i \in DOMAIN tasks :
                tasks[i].st = "done" =>
                    /\ Cardinality(ResultsFor(tasks[i].callsign)) = 1
                    /\ \A k \in ResultsFor(tasks[i].callsign) :
                         results[k][2] = (IF tasks[i].outcome = "found"
                                          THEN Some("Jay") ELSE None))
    /\ [][EnrichmentApplied =>
            \A i \in DOMAIN tasks :
                \E m \in DOMAIN members' :
                    /\ members'[m].callsign = tasks[i].callsign
                    /\ members'[m].nickname = (IF tasks[i].outcome = "found"
                                               THEN Some("Jay") ELSE None)]_vars

\* One lookup of the batch has failed, another has found a nickname, and
\* both pairs are collected.
C14_Witness ==
    /\ pc = "lookups"
    /\ \A i \in DOMAIN tasks : tasks[i].st = "done"
    /\ \E i \in Finished("error"), j \in Finished("found") :
         /\ \E k \in ResultsFor(tasks[i].callsign) : results[k][2] = None
         /\ \E k \in ResultsFor(tasks[j].callsign) : results[k][2] = Some("Jay")

(***************************************************************************)
(* C15: the cache holds a confirmed-absent entry (get returns Some(None))  *)
(* only for a callsign whose lookup completed without a nickname; a lookup *)
(* that ended in an error creates no such entry.                           *)
(***************************************************************************)
C15_NoEntryForFailedLookup ==
    [][EnrichmentApplied =>
         \A i \in Finished("error") :
             get(nickname_cache', tasks[i].callsign) # Some(None)]_vars

(***************************************************************************)
(* CsvFetcher / HtmlFetcher: fetch_with_retry (csv_fetcher.rs:142-171,     *)
(* html_fetcher.rs:127-167; the two bodies are the same). Each request and *)
(* each backoff sleep is a step of its own.                                *)
(***************************************************************************)
FETCH_MAX_ATTEMPTS == 3       \* fetch_members: fetch_with_retry(3)
BACKOFF_BASE_MS    == 500     \* first delay of the backoff
CSV_TIMEOUT_SECS   == 30      \* CsvFetcher::new: client timeout
HTML_TIMEOUT_SECS  == 60      \* HtmlFetcher::new: client timeout

RECURSIVE pow2(_)
pow2(n) == IF n = 0 THEN 1 ELSE 2 * pow2(n - 1)

\* Mutant: the exponent is the attempt number, not the attempt number less 1.
backoff_delay_doubled(attempt) == BACKOFF_BASE_MS * pow2(attempt)

\* csv_fetcher.rs:165: 500 * 2u64.pow(attempt - 1) milliseconds.
backoff_delay(attempt) == BACKOFF_BASE_MS * pow2(attempt - 1)

\* A fetcher of either kind about to fetch from a source that answers or
\* stays silent; the client carries the timeout of its constructor.
InitFetch ==
    /\ MainIdle /\ QrzIdle /\ ParseIdle /\ StoreIdle /\ EvalIdle
    /\ fetch \in { [pc |-> "start", kind |-> k.kind, timeout |-> k.timeout,
                    answers |-> a, attempt |-> 0, log |-> << >>,
                    sleeps |-> << >>, last_error |-> None, result |-> "none"] :
                     k \in { [kind |-> "csv", timeout |-> Some(CSV_TIMEOUT_SECS)],
                             [kind |-> "html", timeout |-> Some(HTML_TIMEOUT_SECS)] },
                     a \in BOOLEAN }

\* The loop `for attempt in 1..=max_attempts` is entered: the first request
\* is sent.
fetch_with_retry ==
    /\ fetch.pc = "start"
    /\ fetch' = [fetch EXCEPT !.pc = "request", !.attempt = 1]
    /\ UNCHANGED << main_vars, qrz_vars, parse, store, eval >>

\* The answers a request can get: a 2xx response whose body is read ("ok")
\* or whose body cannot be read ("body_error"), another status, or a failed
\* send. A silent source leaves only the client's timeout.
FetchAnswers ==
    IF fetch.answers
    THEN {"ok", "body_error", "status", "connect", "timeout"}
    ELSE IF fetch.timeout # None THEN {"timeout"} ELSE {}

\* csv_fetcher.rs:146-167: one iteration of the loop from the answer on. A
\* 2xx response returns the result of reading its body, be it Ok or Err; any
\* other answer is kept as last_error, followed by the backoff sleep unless
\* this was the last attempt; after the last attempt the error is returned.
fetch_response(answer) ==
    /\ fetch.pc = "request"
    /\ answer \in FetchAnswers
    /\ LET logged == [fetch EXCEPT !.log = Append(@, answer)]
       IN  fetch' =
             CASE answer = "ok" ->
                    [logged EXCEPT !.pc = "done", !.result = "Ok"]
               [] answer = "body_error" ->
                    [logged EXCEPT !.pc = "done", !.result = "Err"]
               [] OTHER ->
                    IF fetch.attempt < FETCH_MAX_ATTEMPTS
                    THEN [logged EXCEPT !.pc = "sleep", !.last_error = Some(answer),
                                        !.sleeps = Append(@, backoff_delay(fetch.attempt))]
                    ELSE [logged EXCEPT !.pc = "done", !.last_error = Some(answer),
                                        !.result = "Err"]
    /\ UNCHANGED << main_vars, qrz_vars, parse, store, eval >>

\* csv_fetcher.rs:167: the sleep is over, the next iteration sends its
\* request.
fetch_retry ==
    /\ fetch.pc = "sleep"
    /\ fetch' = [fetch EXCEPT !.pc = "request", !.attempt = @ + 1]
    /\ UNCHANGED << main_vars, qrz_vars, parse, store, eval >>

NextFetch ==
    \/ fetch_with_retry
    \/ \E answer \in {"ok", "body_error", "status", "connect", "timeout"} :
         fetch_response(answer)
    \/ fetch_retry

SpecFetch == InitFetch /\ [][NextFetch]_vars

\* Requests sent so far, and those that have failed.
FetchRequests == fetch.attempt
FailedAttempts == { k \in DOMAIN fetch.log : fetch.log[k] # "ok" }

TransportFailures(i) ==
    { k \in DOMAIN calls[i].trace :
        calls[i].trace[k].kind = "lookup" /\ calls[i].trace[k].resp = "transport" }

(***************************************************************************)
(* C17: a lookup is reported as failed for a transport error only after    *)
(* the lookup request has been retried up to the attempt cap, that is      *)
(* after as many failed lookup requests as the cap allows.                 *)
(***************************************************************************)
C17_TransportErrorRetriedToCap ==
    \A i \in DOMAIN calls :
        calls[i].result = "Err(transport)" =>
            Cardinality(TransportFailures(i)) = FETCH_MAX_ATTEMPTS

(***************************************************************************)
(* C18: no request blocks forever: as long as a lookup call has not        *)
(* returned, some step is possible (an answer, or the failure of the       *)
(* request by timeout), so a silent service cannot stop the calls from     *)
(* returning.                                                              *)
(***************************************************************************)
C18_NoRequestBlocksForever == AllReturned \/ ENABLED NextQrz

\* Observation: in this step call i receives the session-expiry answer to
\* the lookup request it sent with its token.
ExpirySignal(i) ==
    /\ calls[i].pc = "lookup"
    /\ calls'[i].pc = "enter"
    /\ calls'[i].retry_count = calls[i].retry_count + 1

(***************************************************************************)
(* C37: a session-expiry signal received for a token clears the cached     *)
(* session only while the cached token is still that token: when the cache *)
(* holds a newer token, installed by another lookup's re-authentication,   *)
(* the signal leaves it in place.                                          *)
(***************************************************************************)
C37_LateExpiryKeepsNewerToken ==
    [][\A i \in DOMAIN calls :
          (ExpirySignal(i) /\ session_key # None /\ session_key # calls[i].key)
              => session_key' = session_key]_vars

(***************************************************************************)
(* CsvFetcher / HtmlFetcher: parsing a fetched document into members       *)
(* (csv_fetcher.rs:34-139, html_fetcher.rs:39-124).                        *)
(* A string is the sequence of its character codes (ASCII), a row the      *)
(* sequence of its cells, a document the sequence of its rows.             *)
(***************************************************************************)
MaxRows == 3        \* data rows of a document

\* u32::MAX, 4294967295, as its decimal digits.
U32_MAX == << 52, 50, 57, 52, 57, 54, 55, 50, 57, 53 >>

is_whitespace(c) == c \in {9, 10, 13, 32}
is_upper(c) == c \in 65..90
is_digit(c) == c \in 48..57

\* str::to_uppercase, str::to_lowercase
to_uppercase(s) == [i \in DOMAIN s |-> IF s[i] \in 97..122 THEN s[i] - 32 ELSE s[i]]
to_lowercase(s) == [i \in DOMAIN s |-> IF s[i] \in 65..90 THEN s[i] + 32 ELSE s[i]]

\* str::trim
RECURSIVE trim_start(_)
trim_start(s) ==
    IF s # << >> /\ is_whitespace(Head(s)) THEN trim_start(Tail(s)) ELSE s
RECURSIVE trim_end(_)
trim_end(s) ==
    IF s # << >> /\ is_whitespace(s[Len(s)])
    THEN trim_end(SubSeq(s, 1, Len(s) - 1)) ELSE s
trim(s) == trim_end(trim_start(s))

\* str::ends_with
ends_with(s, suffix) ==
    /\ Len(s) >= Len(suffix)
    /\ SubSeq(s, Len(s) - Len(suffix) + 1, Len(s)) = suffix

\* s.split('/').next(): the text before the first '/'.
split_next(s) ==
    LET slashes == { i \in DOMAIN s : s[i] = 47 }
    IN  IF slashes = {} THEN s
        ELSE SubSeq(s, 1, (CHOOSE i \in slashes : \A j \in slashes : i <= j) - 1)

\* The regex ^[A-Z]{1,2}\d[A-Z]{1,4}$ of both fetchers.
is_valid_callsign(s) ==
    \E p \in 1..2 :
        /\ Len(s) - (p + 1) \in 1..4
        /\ \A i \in 1..p : is_upper(s[i])
        /\ is_digit(s[p + 1])
        /\ \A i \in (p + 2)..Len(s) : is_upper(s[i])

\* String::cmp, less than: ordinal, character by character.
RECURSIVE cmp_less(_, _)
cmp_less(a, b) ==
    IF b = << >> THEN FALSE
    ELSE IF a = << >> THEN TRUE
    ELSE IF Head(a) = Head(b) THEN cmp_less(Tail(a), Tail(b))
    ELSE Head(a) < Head(b)

\* str::parse::<u32>: an optional '+', then one or more digits, no overflow.
RECURSIVE strip_zeros(_)
strip_zeros(d) ==
    IF d # << >> /\ Head(d) = 48 THEN strip_zeros(Tail(d)) ELSE d
RECURSIVE decimal(_)
decimal(d) ==
    IF d = << >> THEN 0
    ELSE 10 * decimal(SubSeq(d, 1, Len(d) - 1)) + (d[Len(d)] - 48)
parse_u32(s) ==
    LET d == IF s # << >> /\ s[1] = 43 THEN Tail(s) ELSE s
        n == strip_zeros(d)
    IN  IF d = << >> \/ \E i \in DOMAIN d : ~is_digit(d[i]) THEN None
        ELSE IF Len(n) > Len(U32_MAX) THEN None
        ELSE IF Len(n) = Len(U32_MAX) /\ cmp_less(U32_MAX, n) THEN None
        ELSE Some(decimal(n))

\* Mutant: the members are returned in the order of the rows.
sort_by_cmp_skipped(ms) == ms

\* members.sort_by(|a, b| a.callsign.cmp(&b.callsign)): a stable sort.
RECURSIVE insert_by_cmp(_, _)
insert_by_cmp(m, ms) ==
    IF ms = << >> THEN << m >>
    ELSE IF cmp_less(m.callsign, Head(ms).callsign)
    THEN << m >> \o ms
    ELSE << Head(ms) >> \o insert_by_cmp(m, Tail(ms))
RECURSIVE sort_fold(_, _)
sort_fold(ms, sorted) ==
    IF ms = << >> THEN sorted
    ELSE sort_fold(Tail(ms), insert_by_cmp(Head(ms), sorted))
sort_by_cmp(ms) == sort_fold(ms, << >>)

\* Mutant: no row is taken for a duplicate.
is_duplicate_never(seen, callsign) == FALSE

\* seen.contains(&callsign)
is_duplicate(seen, callsign) == callsign \in seen

\* Header names, lower case: "call", "callsign", "call sign", "qc #",
\* "qc#", "qc number", "number", "#".
CallsignHeaders ==
    { << 99, 97, 108, 108 >>,
      << 99, 97, 108, 108, 115, 105, 103, 110 >>,
      << 99, 97, 108, 108, 32, 115, 105, 103, 110 >> }
QcNumberHeaders ==
    { << 113, 99, 32, 35 >>, << 113, 99, 35 >>,
      << 113, 99, 32, 110, 117, 109, 98, 101, 114 >>,
      << 110, 117, 109, 98, 101, 114 >>, << 35 >> }

\* Mutant: a flexible reader, every record is readable.
records_flexible(doc) == [i \in DOMAIN doc |-> Some(doc[i])]

\* The csv reader (has_headers(false), not flexible): a record whose number
\* of fields differs from that of the first record is an error.
records(doc) ==
    [i \in DOMAIN doc |->
        IF Len(doc[i]) = Len(doc[1]) THEN Some(doc[i]) ELSE None]

\* Index of the least element of a non-empty set of indices, as an Option.
first_of(indices) ==
    IF indices = {} THEN None
    ELSE Some(CHOOSE i \in indices : \A j \in indices : i <= j)

\* csv_fetcher.rs:43-59: the first readable record whose first column,
\* lower-cased and trimmed, is "call" or "callsign".
header_row(doc) ==
    first_of({ i \in DOMAIN doc :
                 /\ records(doc)[i] # None
                 /\ trim(to_lowercase(doc[i][1])) \in
                        { << 99, 97, 108, 108 >>,
                          << 99, 97, 108, 108, 115, 105, 103, 110 >> } })

\* csv_fetcher.rs:173-190: by name, else the first column. Columns count
\* from 1 here.
find_callsign_column(headers) ==
    LET named == first_of({ i \in DOMAIN headers :
                              trim(to_lowercase(headers[i])) \in CallsignHeaders })
    IN  IF named # None THEN named
        ELSE IF headers # << >> THEN Some(1) ELSE None

\* Mutant: like the callsign column, the ID column falls back to a position
\* (the last column) when no header names it.
find_qc_number_column_or_last(headers) ==
    LET named == first_of({ i \in DOMAIN headers :
                              trim(to_lowercase(headers[i])) \in QcNumberHeaders })
    IN  IF named # None THEN named
        ELSE IF headers # << >> THEN Some(Len(headers)) ELSE None

\* csv_fetcher.rs:192-202
find_qc_number_column(headers) ==
    first_of({ i \in DOMAIN headers :
                 trim(to_lowercase(headers[i])) \in QcNumberHeaders })

\* csv_fetcher.rs:81-132: the loop over the records after the header.
RECURSIVE csv_rows(_, _, _, _, _)
csv_rows(recs, callsign_col, qc_number_col, seen, parsed) ==
    IF recs = << >> THEN parsed
    ELSE LET skip == csv_rows(Tail(recs), callsign_col, qc_number_col, seen, parsed)
             record == Unwrap(Head(recs))
             callsign == to_uppercase(trim(record[callsign_col]))
             qc_number == IF qc_number_col <= Len(record)
                          THEN parse_u32(trim(record[qc_number_col]))
                          ELSE None
         IN  IF Head(recs) = None THEN skip
             ELSE IF callsign_col > Len(record) THEN skip
             ELSE IF callsign = << >> THEN skip
             ELSE IF ~is_valid_callsign(callsign) THEN skip
             ELSE IF is_duplicate(seen, callsign) THEN skip
             ELSE IF qc_number = None THEN skip
             ELSE csv_rows(Tail(recs), callsign_col, qc_number_col,
                           seen \cup {callsign},
                           Append(parsed, [callsign |-> callsign,
                                            qc_number |-> Unwrap(qc_number)]))

\* CsvFetcher::fetch_members after the fetch (csv_fetcher.rs:37-139).
parse_csv(doc) ==
    LET header == header_row(doc)
        headers == doc[Unwrap(header)]
        callsign_col == find_callsign_column(headers)
        qc_number_col == find_qc_number_column(headers)
        data == SubSeq(records(doc), Unwrap(header) + 1, Len(doc))
    IN  IF header = None THEN [ok |-> FALSE, members |-> << >>]
        ELSE IF callsign_col = None THEN [ok |-> FALSE, members |-> << >>]
        ELSE IF qc_number_col = None THEN [ok |-> FALSE, members |-> << >>]
        ELSE [ok |-> TRUE,
              members |-> sort_by_cmp(csv_rows(data, Unwrap(callsign_col),
                                               Unwrap(qc_number_col), {}, << >>))]

\* Mutant: no cell is taken for a Silent Key cell.
is_silent_key_never(callsign_raw) == FALSE

\* Mutant: a Silent Key cell is one whose text after the first '/' is "SK".
is_silent_key_first_suffix(callsign_raw) ==
    LET base == split_next(callsign_raw)
    IN  SubSeq(callsign_raw, Len(base) + 1, Len(callsign_raw)) = << 47, 83, 75 >>

\* callsign_raw.ends_with("/SK"), on the trimmed, upper-cased cell text.
is_silent_key(callsign_raw) == ends_with(callsign_raw, << 47, 83, 75 >>)

\* html_fetcher.rs:51-118: the loop over the rows of the table; a row is the
\* sequence of the texts of its td cells. Column indices count from 0.
RECURSIVE html_rows(_, _, _, _, _)
html_rows(rows, callsign_column_index, number_column_index, seen, parsed) ==
    IF rows = << >> THEN parsed
    ELSE LET skip == html_rows(Tail(rows), callsign_column_index,
                               number_column_index, seen, parsed)
             cells == Head(rows)
             callsign_raw == to_uppercase(trim(cells[callsign_column_index + 1]))
             callsign == trim(split_next(callsign_raw))
             member_id == trim(cells[number_column_index + 1])
         IN  IF cells = << >> THEN skip
             ELSE IF Len(cells) <= callsign_column_index
                     \/ Len(cells) <= number_column_index THEN skip
             ELSE IF is_silent_key(callsign_raw) THEN skip
             ELSE IF callsign = << >> THEN skip
             ELSE IF ~is_valid_callsign(callsign) THEN skip
             ELSE IF is_duplicate(seen, callsign) THEN skip
             ELSE IF member_id = << >> THEN skip
             ELSE html_rows(Tail(rows), callsign_column_index, number_column_index,
                            seen \cup {callsign},
                            Append(parsed, [callsign |-> callsign,
                                             member_id |-> member_id,
                                             nickname |-> None]))

\* HtmlFetcher::parse_html (html_fetcher.rs:39-124).
parse_html(doc, callsign_column_index, number_column_index) ==
    [ok |-> TRUE,
     members |-> sort_by_cmp(html_rows(doc, callsign_column_index,
                                       number_column_index, {}, << >>))]

\* The cells the documents are built of. Callsign cells: "W1A", "w1a "
\* (lower case, a trailing blank), "K2B", "W1A/SK", "K2B/P", "" and "W1"
\* (not a callsign). ID cells: "7", "8", "2C" and "".
CallsignCells ==
    { << 87, 49, 65 >>, << 119, 49, 97, 32 >>, << 75, 50, 66 >>,
      << 87, 49, 65, 47, 83, 75 >>, << 75, 50, 66, 47, 80 >>, << >>,
      << 87, 49 >> }
IdCells == { << 55 >>, << 56 >>, << 50, 67 >>, << >> }

\* Data rows: a callsign cell and an ID cell, or a callsign cell alone.
\* An HTML table can also hold a row without td cells (a header row).
DataRows == { << c, n >> : c \in CallsignCells, n \in IdCells }
                \cup { << << 87, 49, 65 >> >> }
\* and a Silent Key cell written in mixed case: "k2b/Sk " with the ID "7";
\* cells of two suffixes: "K2B/P/SK" with the ID "7", "W1A/SK/P" with "8".
HtmlRows == DataRows \cup { << >> }
                \cup { << << 107, 50, 98, 47, 83, 107, 32 >>, << 55 >> >> }
                \cup { << << 75, 50, 66, 47, 80, 47, 83, 75 >>, << 55 >> >>,
                       << << 87, 49, 65, 47, 83, 75, 47, 80 >>, << 56 >> >> }

\* The CSV header row "Call,QC #".
CsvHeader == << << 67, 97, 108, 108 >>, << 81, 67, 32, 35 >> >>

\* Further first rows of a table: " CALLSIGN ,number " (other names, upper
\* case and blanks), "Call,Name" (no ID column), "QC #,Call" (the callsign
\* column is not the first), "Callsign,Name,Number" and "call,#,Name"
\* (three columns, the ID column last or second).
CsvHeaders ==
    { CsvHeader,
      << << 32, 67, 65, 76, 76, 83, 73, 71, 78, 32 >>,
         << 110, 117, 109, 98, 101, 114, 32 >> >>,
      << << 67, 97, 108, 108 >>, << 78, 97, 109, 101 >> >>,
      << << 81, 67, 32, 35 >>, << 67, 97, 108, 108 >> >>,
      << << 67, 97, 108, 108, 115, 105, 103, 110 >>, << 78, 97, 109, 101 >>,
         << 78, 117, 109, 98, 101, 114 >> >>,
      << << 99, 97, 108, 108 >>, << 35 >>, << 78, 97, 109, 101 >> >> }

\* Rows above the header row: "Roster,2024", "Roster" (one field only) and
\* "W1A,7" (it reads like a data row).
LeadingRows ==
    { << << 82, 111, 115, 116, 101, 114 >>, << 50, 48, 50, 52 >> >>,
      << << 82, 111, 115, 116, 101, 114 >> >>,
      << << 87, 49, 65 >>, << 55 >> >> }

\* Data rows of three cells: "W1A,7,8" and "K2B,2C,7".
CsvRows ==
    DataRows \cup { << << 87, 49, 65 >>, << 55 >>, << 56 >> >>,
                    << << 75, 50, 66 >>, << 50, 67 >>, << 55 >> >> }

\* organizations.skip_rows (config.rs:23), the values explored.
MaxSkipRows == 1

\* A document has been fetched for an organization: a CSV document of at
\* most MaxRows data rows with or without its header row; a CSV document of
\* fewer data rows with any of the header rows, with or without a row above
\* it, for an organization with or without skip_rows; or an HTML table of
\* at most MaxRows rows read with the callsign in column 0 and the ID in
\* column 1.
InitParse ==
    /\ \E n \in 0..MaxRows :
         \/ \E h \in { << >>, << CsvHeader >> }, d \in [1..n -> CsvRows] :
              parse = [pc |-> "fetched", skip_rows |-> 0,
                       fetcher |-> [kind |-> "csv"],
                       doc |-> h \o d, result |-> None]
         \/ /\ n < MaxRows
            /\ \E k \in 0..MaxSkipRows,
                  l \in { << >> } \cup { << r >> : r \in LeadingRows },
                  h \in CsvHeaders, d \in [1..n -> CsvRows] :
                 parse = [pc |-> "fetched", skip_rows |-> k,
                          fetcher |-> [kind |-> "csv"],
                          doc |-> l \o << h >> \o d, result |-> None]
         \/ \E d \in [1..n -> HtmlRows] :
              parse = [pc |-> "fetched", skip_rows |-> 0,
                       fetcher |-> [kind |-> "html", callsign_column_index |-> 0,
                                    number_column_index |-> 1],
                       doc |-> d, result |-> None]
    /\ MainIdle /\ QrzIdle /\ FetchIdle /\ StoreIdle /\ EvalIdle

\* CsvFetcher::fetch_members, from the fetched document on. The fetcher
\* holds the URL only (csv_fetcher.rs:14-32): the organization's skip_rows
\* is not read, the header row is searched for.
csv_fetch_members ==
    /\ parse.pc = "fetched"
    /\ parse.fetcher.kind = "csv"
    /\ parse' = [parse EXCEPT !.pc = "parsed", !.result = Some(parse_csv(parse.doc))]
    /\ UNCHANGED << main_vars, qrz_vars, fetch, store, eval >>

\* HtmlFetcher::fetch_members, from the fetched document on.
html_fetch_members ==
    /\ parse.pc = "fetched"
    /\ parse.fetcher.kind = "html"
    /\ parse' = [parse EXCEPT !.pc = "parsed",
                              !.result = Some(parse_html(parse.doc,
                                                  parse.fetcher.callsign_column_index,
                                                  parse.fetcher.number_column_index))]
    /\ UNCHANGED << main_vars, qrz_vars, fetch, store, eval >>

NextParse ==
    \/ csv_fetch_members
    \/ html_fetch_members

SpecParse == InitParse /\ [][NextParse]_vars

\* The parse has returned Ok; its members.
Parsed == parse.pc = "parsed" /\ Unwrap(parse.result).ok
ParsedMembers == Unwrap(parse.result).members

(***************************************************************************)
(* C19: whatever the document and the order of its rows, the parsed member *)
(* list is strictly ascending by callsign, no two members share a callsign *)
(* when letter case is ignored, and every callsign is 1-2 upper-case       *)
(* letters, one digit and 1-4 upper-case letters.                          *)
(***************************************************************************)
C19_SortedUniqueValidCallsigns ==
    Parsed =>
        /\ \A i, j \in DOMAIN ParsedMembers :
             i < j =>
                 /\ cmp_less(ParsedMembers[i].callsign, ParsedMembers[j].callsign)
                 /\ to_lowercase(ParsedMembers[i].callsign)
                        # to_lowercase(ParsedMembers[j].callsign)
        /\ \A i \in DOMAIN ParsedMembers :
             LET c == ParsedMembers[i].callsign
             IN  \E letters \in 1..2, suffix \in 1..4 :
                     /\ Len(c) = letters + 1 + suffix
                     /\ \A k \in DOMAIN c :
                          IF k = letters + 1 THEN c[k] \in 48..57
                          ELSE c[k] \in 65..90

\* Two members were parsed from rows given in descending order of callsign,
\* the first of them written in lower case with a trailing blank.
C19_Witness ==
    /\ Parsed
    /\ Len(ParsedMembers) = 2
    /\ Len(parse.doc) >= 2
    /\ parse.doc[Len(parse.doc) - 1] = << << 119, 49, 97, 32 >>, << 56 >> >>
    /\ parse.doc[Len(parse.doc)] = << << 75, 50, 66 >>, << 55 >> >>
    /\ ParsedMembers[1].callsign = << 75, 50, 66 >>
    /\ ParsedMembers[2].callsign = << 87, 49, 65 >>

(***************************************************************************)
(* Rows and members of a parse, as the properties read them                *)
(***************************************************************************)
IsCsv == parse.fetcher.kind = "csv"

\* The least column of a row whose text, trimmed and in lower case, is one
\* of the given names, as an Option.
NamedColumn(row, names) ==
    first_of({ j \in DOMAIN row : trim(to_lowercase(row[j])) \in names })

\* A row of a CSV document has as many fields as the first row.
Readable(i) == Len(parse.doc[i]) = Len(parse.doc[1])

\* The header row of a CSV document: the first readable row whose first
\* field reads "call" or "callsign", as an Option.
HeaderIndex ==
    first_of({ i \in DOMAIN parse.doc :
                 /\ Readable(i)
                 /\ parse.doc[i] # << >>
                 /\ trim(to_lowercase(parse.doc[i][1])) \in
                        { << 99, 97, 108, 108 >>,
                          << 99, 97, 108, 108, 115, 105, 103, 110 >> } })

\* The rows read as data: in CSV mode the readable records after the header
\* row, in HTML mode the rows with a callsign cell and an ID cell.
DataRowIndices ==
    IF IsCsv
    THEN { i \in DOMAIN parse.doc :
             HeaderIndex # None /\ i > Unwrap(HeaderIndex) /\ Readable(i) }
    ELSE { i \in DOMAIN parse.doc : Len(parse.doc[i]) >= 2 }

\* The columns the callsign and the ID are read from, counted from 1.
CallsignColumn ==
    IF IsCsv
    THEN Unwrap(NamedColumn(parse.doc[Unwrap(HeaderIndex)], CallsignHeaders))
    ELSE parse.fetcher.callsign_column_index + 1
NumberColumn ==
    IF IsCsv
    THEN Unwrap(NamedColumn(parse.doc[Unwrap(HeaderIndex)], QcNumberHeaders))
    ELSE parse.fetcher.number_column_index + 1

\* The callsign cell of a row, trimmed and in upper case.
CellCallsign(i) == to_uppercase(trim(parse.doc[i][CallsignColumn]))

\* The callsign the parser takes from a row: in HTML mode the text before
\* the first '/', unless the cell carries the Silent Key marker.
RowCallsign(i) ==
    IF IsCsv \/ ends_with(CellCallsign(i), << 47, 83, 75 >>)
    THEN CellCallsign(i)
    ELSE trim(split_next(CellCallsign(i)))

\* The ID a row carries, if it is usable: a number in CSV mode, a non-empty
\* text in HTML mode.
RowId(i) ==
    IF IsCsv THEN parse_u32(trim(parse.doc[i][NumberColumn]))
    ELSE IF trim(parse.doc[i][NumberColumn]) = << >> THEN None
    ELSE Some(trim(parse.doc[i][NumberColumn]))

\* The ID a member carries.
MemberId(m) == IF IsCsv THEN m.qc_number ELSE m.member_id

\* The members parsed with a given callsign.
MembersWith(callsign) ==
    { k \in DOMAIN ParsedMembers : ParsedMembers[k].callsign = callsign }

(***************************************************************************)
(* C20: when several rows carry the same callsign (their callsign cells    *)
(* are equal after trimming, letter case ignored), the member parsed for   *)
(* that callsign carries the ID of the first of these rows.                *)
(***************************************************************************)
C20_FirstRowWins ==
    Parsed =>
        \A i, j \in DataRowIndices :
            (/\ i < j
             /\ CellCallsign(i) = CellCallsign(j)
             /\ is_valid_callsign(CellCallsign(i))
             /\ \A h \in DataRowIndices : h < i => CellCallsign(h) # CellCallsign(i)) =>
                \A k \in MembersWith(CellCallsign(i)) :
                    Some(MemberId(ParsedMembers[k])) = RowId(i)

\* C20, amended: among the rows from which the parser takes the same
\* callsign, the first one whose ID is usable wins: exactly one member is
\* parsed for the callsign, it carries the ID of that row, and a callsign
\* without such a row has no member.
C20_FirstUsableRowWins ==
    Parsed =>
        \A i \in DataRowIndices :
            LET usable == { j \in DataRowIndices :
                              RowCallsign(j) = RowCallsign(i) /\ RowId(j) # None }
            IN  IF is_valid_callsign(RowCallsign(i)) /\ usable # {}
                THEN /\ Cardinality(MembersWith(RowCallsign(i))) = 1
                     /\ \A k \in MembersWith(RowCallsign(i)) :
                          Some(MemberId(ParsedMembers[k])) = RowId(Unwrap(first_of(usable)))
                ELSE MembersWith(RowCallsign(i)) = {}

\* Two rows with the same callsign and different usable IDs were parsed, and
\* the member carries the ID of the first.
C20_Witness ==
    /\ Parsed
    /\ \E i, j \in DataRowIndices :
         /\ i < j
         /\ RowCallsign(i) = RowCallsign(j)
         /\ parse.doc[i][1] # parse.doc[j][1]
         /\ RowId(i) # None /\ RowId(j) # None /\ RowId(i) # RowId(j)
         /\ \A h \in DataRowIndices : h < i => RowCallsign(h) # RowCallsign(i)
         /\ \E k \in MembersWith(RowCallsign(i)) :
              Some(MemberId(ParsedMembers[k])) = RowId(i)

(***************************************************************************)
(* Rows removed from a document                                            *)
(***************************************************************************)
\* The document without the rows whose indices are in drop, in order.
remove_rows(doc, drop) ==
    LET kept == DOMAIN doc \ drop
    IN  [k \in 1..Cardinality(kept) |->
            doc[CHOOSE i \in kept : Cardinality({ j \in kept : j <= i }) = k]]

\* The rows of an HTML table whose callsign cell ends, once trimmed, with
\* the Silent Key marker "/SK" in any letter case.
SilentKeyRows ==
    { i \in DOMAIN parse.doc :
        /\ Len(parse.doc[i]) >= 2
        /\ LET c == trim(parse.doc[i][1])
           IN  /\ Len(c) >= 3
               /\ to_lowercase(SubSeq(c, Len(c) - 2, Len(c))) = << 47, 115,
                   107 >> }

\* The text of a callsign cell before its first '/', trimmed, in upper case.
BaseCallsign(i) == trim(split_next(CellCallsign(i)))

(***************************************************************************)
(* C21: in HTML mode a row whose callsign cell carries the Silent Key      *)
(* marker, in any letter case, is dropped entirely: the parse yields the   *)
(* members it yields for the table without these rows, so a member with    *)
(* the base callsign of such a row stems from another row (it carries the  *)
(* ID of an unmarked row with that callsign), and no member carries a      *)
(* marked callsign.                                                        *)
(***************************************************************************)
C21_SilentKeyRowDropped ==
    (Parsed /\ ~IsCsv) =>
        /\ ParsedMembers =
               parse_html(remove_rows(parse.doc, SilentKeyRows),
                          parse.fetcher.callsign_column_index,
                          parse.fetcher.number_column_index).members
        /\ \A i \in SilentKeyRows :
             /\ MembersWith(CellCallsign(i)) = {}
             /\ \A k \in MembersWith(BaseCallsign(i)) :
                  \E j \in DataRowIndices \ SilentKeyRows :
                      /\ RowCallsign(j) = BaseCallsign(i)
                      /\ RowId(j) = Some(MemberId(ParsedMembers[k]))

\* A table with a marked row in mixed case whose base callsign and ID are
\* usable was parsed: the base callsign has no member, another row has one.
C21_Witness ==
    /\ Parsed /\ ~IsCsv
    /\ Len(ParsedMembers) = 1
    /\ \E i \in SilentKeyRows :
         /\ parse.doc[i][1] = << 107, 50, 98, 47, 83, 107, 32 >>
         /\ is_valid_callsign(BaseCallsign(i))
         /\ RowId(i) # None
         /\ MembersWith(BaseCallsign(i)) = {}

(***************************************************************************)
(* Rows that fail a per-row check                                          *)
(***************************************************************************)
\* The parse has returned, Ok or Err.
Returned == parse.pc = "parsed"

\* The parse of a document by the fetcher at hand.
parse_of(doc) ==
    IF IsCsv THEN parse_csv(doc)
    ELSE parse_html(doc, parse.fetcher.callsign_column_index,
                    parse.fetcher.number_column_index)

\* The rows subject to the per-row checks: in CSV mode the rows after the
\* header row, if the header row and its two columns were found, in HTML
\* mode all rows.
CheckedRows ==
    IF ~IsCsv THEN DOMAIN parse.doc
    ELSE IF HeaderIndex = None THEN {}
    ELSE IF NamedColumn(parse.doc[Unwrap(HeaderIndex)], QcNumberHeaders) = None
    THEN {}
    ELSE { i \in DOMAIN parse.doc : i > Unwrap(HeaderIndex) }

\* A row passes the checks on its own: it is readable and long enough, its
\* callsign is within the grammar and its ID is usable.
Usable(i) ==
    /\ i \in CheckedRows \cap DataRowIndices
    /\ is_valid_callsign(RowCallsign(i))
    /\ RowId(i) # None

\* The rows that fail a check: not usable, or a duplicate of an earlier
\* usable row.
FailingRows ==
    { i \in CheckedRows :
        \/ ~Usable(i)
        \/ \E h \in CheckedRows :
              h < i /\ Usable(h) /\ RowCallsign(h) = RowCallsign(i) }

(***************************************************************************)
(* C22: a row that fails a per-row check (empty or invalid callsign,       *)
(* duplicate callsign, missing or unparsable ID, too few columns,          *)
(* malformed record) is skipped and never makes the parse fail: the parse  *)
(* returns what it returns for the document without any number of these    *)
(* rows, and it returns Ok whenever the header and the columns were found. *)
(***************************************************************************)
C22_FailingRowsSkipped ==
    Returned =>
        /\ \A drop \in SUBSET FailingRows :
             Unwrap(parse.result) = parse_of(remove_rows(parse.doc, drop))
        /\ (~IsCsv \/ CheckedRows # {}) => Unwrap(parse.result).ok

\* A CSV document with a malformed record (three fields under a header of
\* two), a row with an unparsable ID and a good row was parsed: one member.
C22_Witness ==
    /\ Returned /\ IsCsv
    /\ Unwrap(parse.result).ok
    /\ Len(ParsedMembers) = 1
    /\ Cardinality(FailingRows) = 2
    /\ \E i, j \in FailingRows :
         /\ Len(parse.doc[i]) = 3 /\ Len(parse.doc[1]) = 2
         /\ j \in DataRowIndices /\ is_valid_callsign(RowCallsign(j))
         /\ RowId(j) = None

C24_SkipRowsThenHeader ==
    (Returned /\ IsCsv) =>
        LET header == parse.skip_rows + 1
        IN  /\ (/\ header \in DOMAIN parse.doc
                 /\ NamedColumn(parse.doc[header], CallsignHeaders) # None
                 /\ NamedColumn(parse.doc[header], QcNumberHeaders) # None) =>
                    Unwrap(parse.result).ok
            /\ Unwrap(parse.result).ok =>
                 /\ HeaderIndex = Some(header)
                 /\ \A k \in DOMAIN ParsedMembers :
                      \E i \in DataRowIndices :
                          /\ i > header
                          /\ RowCallsign(i) = ParsedMembers[k].callsign
                          /\ RowId(i) = Some(ParsedMembers[k].qc_number)

\* Observation: the text of a callsign cell after its first '/', trimmed
\* and in upper case, as an Option (None: the cell has no '/').
Suffix(i) ==
    LET c == CellCallsign(i)
        base == split_next(c)
    IN  IF Len(base) = Len(c) THEN None
        ELSE Some(SubSeq(c, Len(base) + 2, Len(c)))

\* The rows of an HTML table that pass every check but the Silent Key one:
\* two cells, a base callsign within the grammar, a non-empty ID.
Candidates ==
    { i \in DOMAIN parse.doc :
        /\ Len(parse.doc[i]) >= 2
        /\ is_valid_callsign(BaseCallsign(i))
        /\ RowId(i) # None }

\* The rows kept: the base callsign has a member, with the ID of the first
\* kept row of that base callsign.
KeptWhen(silent_key(_)) ==
    /\ \A i \in Candidates :
         ~silent_key(i) => MembersWith(BaseCallsign(i)) # {}
    /\ \A k \in DOMAIN ParsedMembers :
         \E i \in Candidates :
             /\ ~silent_key(i)
             /\ ParsedMembers[k].callsign = BaseCallsign(i)
             /\ ParsedMembers[k].member_id = Unwrap(RowId(i))
             /\ \A h \in Candidates :
                  (h < i /\ BaseCallsign(h) = BaseCallsign(i)) => silent_key(h)

\* The suffix reading of the Silent Key check, and the reading of the code.
SuffixIsSK(i) == Suffix(i) = Some(<< 83, 75 >>)
EndsWithSK(i) == ends_with(CellCallsign(i), << 47, 83, 75 >>)

(***************************************************************************)
(* C36: in HTML mode the callsign of a row is the cell text before the     *)
(* first '/', and a row is discarded as Silent Key exactly when the text   *)
(* after that first '/' is SK: the members are the base callsigns of the   *)
(* rows with any other suffix or none, each with the ID of its first such  *)
(* row.                                                                    *)
(***************************************************************************)
C36_DiscardedIffSuffixIsSK ==
    (Parsed /\ ~IsCsv) => KeptWhen(SuffixIsSK)

(***************************************************************************)
(* C36, amended: in HTML mode the callsign of a row is the cell text       *)
(* before the first '/', and a row is discarded as Silent Key exactly when *)
(* the trimmed cell text ends with /SK in any letter case, whatever        *)
(* segments precede it: the members are the base callsigns of the other    *)
(* rows, each with the ID of its first such row.                           *)
(***************************************************************************)
C36_DiscardedIffCellEndsWithSK ==
    (Parsed /\ ~IsCsv) => KeptWhen(EndsWithSK)

\* "K2B/P/SK" and "W1A/SK/P" were parsed: W1A is the only member.
C36_Witness ==
    /\ Parsed /\ ~IsCsv
    /\ \E i, j \in Candidates :
         /\ Suffix(i) = Some(<< 80, 47, 83, 75 >>)
         /\ Suffix(j) = Some(<< 83, 75, 47, 80 >>)
         /\ MembersWith(BaseCallsign(i)) = {}
         /\ MembersWith(BaseCallsign(j)) # {}
    /\ Len(ParsedMembers) = 1

(***************************************************************************)
(* NicknameCache and its backing file (nickname_cache.rs), over the runs   *)
(* of the process: loaded at startup (main.rs:80-92), filled by inserts,   *)
(* saved, dropped when main returns.                                       *)
(* Callsigns and nicknames are strings as above; here the callsigns reach  *)
(* the cache in any letter case, where the daemon hands it the upper-case  *)
(* callsigns of the parsers. The clock counts days.                        *)
(***************************************************************************)
MaxInserts == 2     \* inserts over the runs of the process
MaxRuns == 2        \* runs of the process over the same backing file

\* The callsigns handed to the cache: "W1A", "w1a", "K2B".
CacheCallsigns == { << 87, 49, 65 >>, << 119, 49, 97 >>, << 75, 50, 66 >> }

\* The nicknames looked up: none, "Al".
Nicknames == { None, Some(<< 65, 108 >>) }

\* The instants the clock is read at: day 0, day 30 and day 31.
Instants == { 0, 30, 31 }

\* config.qrz.cache_path (its default) and the path of the fallback cache.
CachePath == "nickname_cache.json"
DevNull == "/dev/null"

\* The content of a file: the text of a CacheData object, as the sequence
\* of its "callsign": entry members in the order they are written, closed
\* or not by the braces that end the object. The text without any member
\* and without the closing braces is the empty text.
text(items, closed) == [kind |-> "text", items |-> items, closed |-> closed]
Missing == [kind |-> "missing"]
Unreadable == [kind |-> "unreadable"]

\* The backing file before the first run: missing; unreadable (no
\* permission, a directory); empty; a text cut short; the entries
\* W1A -> "Al" of 31 days ago; W1A -> "Al" of 30 days ago with K2B -> none
\* of 31 days ago; and w1a -> "Bo" of today under a lower-case key (a file
\* edited by hand).
InitialFiles ==
    { Missing, Unreadable, text(<< >>, FALSE),
      text(<< [key |-> << 87, 49, 65 >>,
               entry |-> [nickname |-> Some(<< 65, 108 >>),
                   cached_at |-> 0] ] >>, FALSE),
      text(<< [key |-> << 87, 49, 65 >>,
               entry |-> [nickname |-> Some(<< 65, 108 >>),
                   cached_at |-> 0 - 31] ] >>, TRUE),
      text(<< [key |-> << 87, 49, 65 >>,
               entry |-> [nickname |-> Some(<< 65, 108 >>),
                   cached_at |-> 0 - 30] ],
              [key |-> << 75, 50, 66 >>,
               entry |-> [nickname |-> None, cached_at |-> 0 - 31] ] >>, TRUE),
      text(<< [key |-> << 119, 49, 97 >>,
               entry |-> [nickname |-> Some(<< 66, 111 >>),
                   cached_at |-> 0] ] >>, TRUE) }

\* CacheEntry::new
CacheEntry_new(nickname, clock) == [nickname |-> nickname, cached_at |-> clock]

\* Mutant: an entry expires when its age reaches the TTL.
CacheEntry_is_expired_at_ttl(entry, clock) ==
    clock - entry.cached_at >= DEFAULT_TTL_DAYS

\* CacheEntry::is_expired: Utc::now() - self.cached_at > ttl
CacheEntry_is_expired(entry, clock) == clock - entry.cached_at > DEFAULT_TTL_DAYS

\* HashMap::insert: the entry under the key is added or replaced.
put(entries, key, entry) ==
    [k \in DOMAIN entries \cup {key} |-> IF k = key THEN entry ELSE entries[k]]

\* CacheData::default(), and a cache over it.
NoEntries == [k \in {} |-> 0]
EmptyCache(path) == [path |-> path, entries |-> NoEntries, dirty |-> FALSE]

\* Mutant: the entry is looked up under the callsign as given.
NicknameCache_get_as_given(cache, callsign, clock) ==
    IF callsign \notin DOMAIN cache.entries THEN None
    ELSE IF CacheEntry_is_expired(cache.entries[callsign], clock) THEN None
    ELSE Some(cache.entries[callsign].nickname)

\* NicknameCache::get: Option<Option<String>>
NicknameCache_get(cache, callsign, clock) ==
    LET key == to_uppercase(callsign)
    IN  IF key \notin DOMAIN cache.entries THEN None
        ELSE IF CacheEntry_is_expired(cache.entries[key], clock) THEN None
        ELSE Some(cache.entries[key].nickname)

\* NicknameCache::insert
NicknameCache_insert(cache, callsign, nickname, clock) ==
    [cache EXCEPT !.entries = put(cache.entries, to_uppercase(callsign),
                                  CacheEntry_new(nickname, clock)),
                  !.dirty = TRUE]

\* NicknameCache::filter_uncached, over a sequence of callsigns.
NicknameCache_filter_uncached(cache, callsigns, clock) ==
    SelectSeq(callsigns, LAMBDA cs : NicknameCache_get(cache, cs, clock) = None)

\* Mutant: an entry without a nickname is not written.
to_string_pretty_skip_none(entries) ==
    LET keys == { k \in DOMAIN entries : entries[k].nickname # None }
    IN  { text([i \in 1..Cardinality(keys) |->
                   [key |-> order[i], entry |-> entries[order[i]]]], TRUE) :
            order \in { o \in [1..Cardinality(keys) -> keys] :
                          \A i, j \in DOMAIN o : i # j => o[i] # o[j] } }

\* serde_json::to_string_pretty(&self.data): the texts it can produce, one
\* per iteration order of the HashMap.
to_string_pretty(entries) ==
    LET keys == DOMAIN entries
    IN  { text([i \in 1..Cardinality(keys) |->
                   [key |-> order[i], entry |-> entries[order[i]]]], TRUE) :
            order \in { o \in [1..Cardinality(keys) -> keys] :
                          \A i, j \in DOMAIN o : i # j => o[i] # o[j] } }

\* serde_json::from_str::<CacheData>: an error for a text that is not a
\* complete object, else the map of its members (a repeated key keeps the
\* last entry).
RECURSIVE collect(_, _)
collect(items, entries) ==
    IF items = << >> THEN entries
    ELSE collect(Tail(items), put(entries, Head(items).key, Head(items).entry))
from_str(content) ==
    IF content.closed THEN Some(collect(content.items, NoEntries)) ELSE None

\* data.entries.retain(|_, entry| !entry.is_expired(ttl))
retain_unexpired(entries, clock) ==
    [k \in { k \in DOMAIN entries : ~CacheEntry_is_expired(entries[k], clock) } |->
        entries[k]]

\* NicknameCache::load: Ok with the cache, or Err. /dev/null exists and
\* reads as the empty text.
NicknameCache_load(path, file, clock) ==
    LET content == IF path = DevNull THEN text(<< >>, FALSE) ELSE file
    IN  IF content.kind = "missing" THEN [ok |-> TRUE, cache |-> EmptyCache(path)]
        ELSE IF content.kind = "unreadable" THEN [ok |-> FALSE]
        ELSE IF content.items = << >> /\ ~content.closed
        THEN [ok |-> TRUE, cache |-> EmptyCache(path)]
        ELSE IF from_str(content) = None THEN [ok |-> FALSE]
        ELSE [ok |-> TRUE,
              cache |-> [path |-> path,
                         entries |-> retain_unexpired(Unwrap(from_str(content)), clock),
                         dirty |-> FALSE]]

\* std::fs::write: the file is created or truncated, then the content is
\* written. What the write leaves behind when it stops after `written`
\* members: the text so far, not closed. /dev/null keeps nothing.
partial(content, written) == text(SubSeq(content.items, 1, written), FALSE)

\* The ways a save can go: done; create_dir_all or the creation of the file
\* fails; the write fails after some members. Nothing fails on /dev/null.
SaveOutcomes(cache, content) ==
    { [kind |-> "ok", written |-> Len(content.items)] }
        \cup (IF cache.path = DevNull THEN {}
              ELSE { [kind |-> "create_error", written |-> 0] }
                     \cup { [kind |-> "write_error", written |-> n] :
                              n \in 0..Len(content.items) })

\* Mutant: the flag is cleared whether or not the write succeeded.
NicknameCache_save_clears_on_error(cache, file, content, outcome) ==
    IF ~cache.dirty THEN [ok |-> TRUE, cache |-> cache, file |-> file]
    ELSE IF outcome.kind = "create_error"
    THEN [ok |-> FALSE, cache |-> [cache EXCEPT !.dirty = FALSE], file |-> file]
    ELSE IF outcome.kind = "write_error"
    THEN [ok |-> FALSE, cache |-> [cache EXCEPT !.dirty = FALSE],
          file |-> partial(content, outcome.written)]
    ELSE [ok |-> TRUE, cache |-> [cache EXCEPT !.dirty = FALSE],
          file |-> IF cache.path = DevNull THEN file ELSE content]

\* NicknameCache::save, writing the given serialization of the entries.
NicknameCache_save(cache, file, content, outcome) ==
    IF ~cache.dirty THEN [ok |-> TRUE, cache |-> cache, file |-> file]
    ELSE IF outcome.kind = "create_error"
    THEN [ok |-> FALSE, cache |-> cache, file |-> file]
    ELSE IF outcome.kind = "write_error"
    THEN [ok |-> FALSE, cache |-> cache, file |-> partial(content, outcome.written)]
    ELSE [ok |-> TRUE, cache |-> [cache EXCEPT !.dirty = FALSE],
          file |-> IF cache.path = DevNull THEN file ELSE content]

\* A run of the process is about to load the cache.
Boot(mode, clock, file, runs, inserted) ==
    [pc |-> "boot", mode |-> mode, clock |-> clock, file |-> file, cache |-> None,
     loaded |-> None, inserts |-> << >>, saved |-> FALSE, warned |-> FALSE,
     end |-> None, runs |-> runs, inserted |-> inserted]

\* The first run starts on day 0, in run-once or in daemon mode.
InitCache ==
    /\ \E mode \in {"once", "daemon"}, file \in InitialFiles :
         store = Boot(mode, 0, file, 1, 0)
    /\ MainIdle /\ QrzIdle /\ FetchIdle /\ ParseIdle /\ EvalIdle

\* Mutant: the fallback is an empty cache on the configured path.
startup_fallback_on_path ==
    /\ store.pc = "boot"
    /\ LET loaded == NicknameCache_load(CachePath, store.file, store.clock)
       IN  store' = [store EXCEPT
                        !.pc = "run",
                        !.cache = IF loaded.ok THEN Some(loaded.cache)
                                  ELSE Some(EmptyCache(CachePath)),
                        !.warned = IF loaded.ok THEN @ ELSE TRUE,
                        !.loaded = Some([file |-> store.file, clock |-> store.clock,
                                         result |-> loaded])]
    /\ UNCHANGED << main_vars, qrz_vars, fetch, parse, eval >>

\* Mutant: an error of the load ends the process.
startup_propagate_error ==
    /\ store.pc = "boot"
    /\ LET loaded == NicknameCache_load(CachePath, store.file, store.clock)
       IN  store' = IF loaded.ok
                    THEN [store EXCEPT !.pc = "run", !.cache = Some(loaded.cache),
                                       !.loaded = Some([file |-> store.file,
                                                        clock |-> store.clock,
                                                        result |-> loaded])]
                    ELSE [store EXCEPT !.pc = "aborted",
                                       !.loaded = Some([file |-> store.file,
                                                        clock |-> store.clock,
                                                        result |-> loaded])]
    /\ UNCHANGED << main_vars, qrz_vars, fetch, parse, eval >>

\* main.rs:87-92: load the cache; on an error warn and start with the cache
\* loaded from /dev/null.
startup ==
    /\ store.pc = "boot"
    /\ LET loaded == NicknameCache_load(CachePath, store.file, store.clock)
           fallback == NicknameCache_load(DevNull, store.file, store.clock)
       IN  store' = [store EXCEPT
                        !.pc = "run",
                        !.cache = IF loaded.ok THEN Some(loaded.cache)
                                  ELSE Some(fallback.cache),
                        !.warned = IF loaded.ok THEN @ ELSE TRUE,
                        !.loaded = Some([file |-> store.file, clock |-> store.clock,
                                         result |-> loaded])]
    /\ UNCHANGED << main_vars, qrz_vars, fetch, parse, eval >>

\* cache.insert(callsign, nickname) (main.rs:360-365).
cache_insert(callsign, nickname) ==
    /\ store.pc = "run"
    /\ store.inserted < MaxInserts
    /\ store' = [store EXCEPT
                    !.cache = Some(NicknameCache_insert(Unwrap(store.cache), callsign,
                                                        nickname, store.clock)),
                    !.inserts = Append(@, [callsign |-> callsign,
                                           nickname |-> nickname,
                                           at |-> store.clock]),
                    !.inserted = @ + 1,
                    !.saved = FALSE]
    /\ UNCHANGED << main_vars, qrz_vars, fetch, parse, eval >>

\* cache.save() (main.rs:366-369): an error is logged. The process can also
\* be killed while std::fs::write is at work.
cache_save ==
    /\ store.pc = "run"
    /\ LET cache == Unwrap(store.cache)
       IN  \E content \in to_string_pretty(cache.entries) :
             \/ \E outcome \in SaveOutcomes(cache, content) :
                  LET saved == NicknameCache_save(cache, store.file, content, outcome)
                  IN  store' = [store EXCEPT
                                   !.cache = Some(saved.cache),
                                   !.file = saved.file,
                                   !.saved = IF cache.dirty THEN saved.ok ELSE @,
                                   !.warned = IF saved.ok THEN @ ELSE TRUE]
             \/ /\ cache.dirty /\ cache.path # DevNull
                /\ \E written \in 0..Len(content.items) :
                     store' = [store EXCEPT
                                  !.pc = "stopped",
                                  !.file = partial(content, written),
                                  !.end = Some([dirty |-> TRUE, flush |-> "interrupted",
                                                status |-> "killed"])]
    /\ UNCHANGED << main_vars, qrz_vars, fetch, parse, eval >>

\* Time passes.
tick ==
    /\ store.pc = "run"
    /\ \E t \in Instants :
         /\ t > store.clock
         /\ store' = [store EXCEPT !.clock = t]
    /\ UNCHANGED << main_vars, qrz_vars, fetch, parse, eval >>

\* main.rs:168-177 with Drop for NicknameCache (nickname_cache.rs:160-167):
\* in run-once mode main leaves the loop and returns Ok; the cache is
\* dropped, a dirty cache is saved and an error of that save is logged.
exit ==
    /\ store.pc = "run"
    /\ store.mode = "once"
    /\ LET cache == Unwrap(store.cache)
       IN  \E content \in to_string_pretty(cache.entries) :
           \E outcome \in SaveOutcomes(cache, content) :
             LET saved == NicknameCache_save(cache, store.file, content, outcome)
             IN  store' = [store EXCEPT
                              !.pc = "exited",
                              !.cache = None,
                              !.file = saved.file,
                              !.warned = IF saved.ok THEN @ ELSE TRUE,
                              !.end = Some([dirty |-> cache.dirty,
                                            flush |-> IF ~cache.dirty THEN "none"
                                                      ELSE IF saved.ok THEN "saved"
                                                      ELSE "failed",
                                            status |-> "Ok"])]
    /\ UNCHANGED << main_vars, qrz_vars, fetch, parse, eval >>

\* main.rs:94-175: in daemon mode the loop has no exit and main installs no
\* signal handler; the process ends when it is stopped by a signal, and no
\* destructor runs.
stop ==
    /\ store.pc = "run"
    /\ store.mode = "daemon"
    /\ store' = [store EXCEPT
                    !.pc = "stopped",
                    !.end = Some([dirty |-> Unwrap(store.cache).dirty,
                                  flush |-> "none", status |-> "killed"])]
    /\ UNCHANGED << main_vars, qrz_vars, fetch, parse, eval >>

\* The process is started again, over the same backing file.
restart ==
    /\ store.pc \in {"exited", "stopped"}
    /\ store.runs < MaxRuns
    /\ store' = Boot(store.mode, store.clock, store.file, store.runs + 1,
                      store.inserted)
    /\ UNCHANGED << main_vars, qrz_vars, fetch, parse, eval >>

NextCache ==
    \/ startup
    \/ \E callsign \in CacheCallsigns, nickname \in Nicknames :
         cache_insert(callsign, nickname)
    \/ cache_save
    \/ tick
    \/ exit
    \/ stop
    \/ restart

SpecCache == InitCache /\ [][NextCache]_vars

(***************************************************************************)
(* The cache of a run, as the properties read it                           *)
(***************************************************************************)
\* The process runs with its cache loaded.
Running == store.pc = "run"

\* get on the cache of the run, today.
Get(callsign) == NicknameCache_get(Unwrap(store.cache), callsign, store.clock)

\* What the load of the configured path returned at startup.
Loaded == Unwrap(store.loaded).result

\* The cache the run started with: the loaded one, or the empty fallback.
StartCache == IF Loaded.ok THEN Loaded.cache ELSE EmptyCache(DevNull)

\* The most recent insert of this run under any letter-case variant of a
\* callsign, as an Option of its index in the log.
LastInsert(callsign) ==
    LET same == { k \in DOMAIN store.inserts :
                    to_lowercase(store.inserts[k].callsign) = to_lowercase(callsign) }
    IN  IF same = {} THEN None
        ELSE Some(CHOOSE k \in same : \A j \in same : j <= k)

(***************************************************************************)
(* C25: after any sequence of inserts, get(c) for any letter-case variant  *)
(* of a callsign returns Some(n), n being the nickname (possibly absent)   *)
(* of the most recent insert under any case variant of that callsign, as   *)
(* long as that insert is at most 30 days old, and None when it is older;  *)
(* for a callsign never inserted in the run it returns what the cache      *)
(* returned when the run started, None for a cache started empty.          *)
(***************************************************************************)
C25_GetReturnsLatestInsert ==
    Running =>
        \A c \in CacheCallsigns :
            IF LastInsert(c) # None
            THEN LET last == store.inserts[Unwrap(LastInsert(c))]
                 IN  Get(c) = IF store.clock - last.at <= 30
                              THEN Some(last.nickname)
                              ELSE None
            ELSE /\ Get(c) = NicknameCache_get(StartCache, c, store.clock)
                 /\ StartCache.entries = NoEntries => Get(c) = None

\* "w1a" was inserted with the nickname "Al" on day 0 and "W1A" without a
\* nickname on day 30; on day 31 get("w1a") returns the confirmed absence,
\* and K2B, never inserted into a cache started empty, is a miss.
C25_Witness ==
    /\ Running
    /\ store.clock = 31
    /\ store.inserts = << [callsign |-> << 119, 49, 97 >>,
                           nickname |-> Some(<< 65, 108 >>), at |-> 0],
                          [callsign |-> << 87, 49, 65 >>, nickname |-> None,
                           at |-> 30] >>
    /\ StartCache.entries = NoEntries
    /\ Get(<< 119, 49, 97 >>) = Some(None)
    /\ Get(<< 75, 50, 66 >>) = None

(***************************************************************************)
(* C26: load never fails on a missing or empty file and returns an empty   *)
(* cache for it; for a file with entries the loaded cache holds exactly    *)
(* the entries of the file that are at most 30 days old at load time; the  *)
(* loaded cache is not dirty.                                              *)
(***************************************************************************)
C26_LoadPrunesExpiredEntries ==
    store.loaded # None =>
        LET file == Unwrap(store.loaded).file
            clock == Unwrap(store.loaded).clock
            fresh == { i \in DOMAIN file.items :
                         clock - file.items[i].entry.cached_at <= 30 }
        IN  /\ (\/ file.kind = "missing"
                \/ file.kind = "text" /\ file.items = << >> /\ ~file.closed) =>
                   /\ Loaded.ok
                   /\ Loaded.cache.entries = NoEntries
                   /\ ~Loaded.cache.dirty
            /\ (file.kind = "text" /\ file.closed) =>
                   /\ Loaded.ok
                   /\ ~Loaded.cache.dirty
                   /\ DOMAIN Loaded.cache.entries = { file.items[i].key : i \in fresh }
                   /\ \A i \in fresh :
                        Loaded.cache.entries[file.items[i].key] = file.items[i].entry

\* The file with W1A of 30 days ago and K2B of 31 days ago was loaded: the
\* run starts with the entry of W1A alone, and a clean cache.
C26_Witness ==
    /\ Running
    /\ store.inserts = << >>
    /\ Unwrap(store.loaded).file.kind = "text"
    /\ Len(Unwrap(store.loaded).file.items) = 2
    /\ Unwrap(store.loaded).file.closed
    /\ Unwrap(store.loaded).clock = 0
    /\ DOMAIN Unwrap(store.cache).entries = { << 87, 49, 65 >> }
    /\ Unwrap(store.cache).entries[<< 87, 49, 65 >>].cached_at = 0 - 30
    /\ ~Unwrap(store.cache).dirty

(***************************************************************************)
(* C27: a cache file that cannot be read or parsed at startup is treated   *)
(* as an empty cache: the process is not aborted, it runs, and until the   *)
(* first insert its cache holds no entry, so that every callsign is a miss *)
(* and is left for a lookup by filter_uncached.                            *)
(***************************************************************************)
C27_BadCacheFileIsEmptyCache ==
    (store.loaded # None /\ ~Loaded.ok) =>
        /\ store.pc \in {"run", "exited", "stopped"}
        /\ (Running /\ store.inserts = << >>) =>
               /\ Unwrap(store.cache).entries = NoEntries
               /\ \A c \in CacheCallsigns :
                    NicknameCache_filter_uncached(Unwrap(store.cache), << c >>,
                                                  store.clock) = << c >>

\* The process runs after a startup with an unreadable cache file, or with
\* one whose text is cut short.
C27_Witness ==
    /\ Running
    /\ store.inserts = << >>
    /\ ~Loaded.ok
    /\ Unwrap(store.loaded).file.kind \in {"unreadable", "text"}
    /\ Unwrap(store.cache).entries = NoEntries
    /\ Get(<< 87, 49, 65 >>) = None

(***************************************************************************)
(* C28: save overwrites the backing file atomically: every step of the     *)
(* process leaves the file as it was or with the complete new content, the *)
(* serialization of the entries of the cache, never with a part of it.     *)
(***************************************************************************)
C28_SaveIsAtomic ==
    [][ \/ store'.file = store.file
        \/ /\ store.pc = "run"
           /\ store'.file \in to_string_pretty(Unwrap(store.cache).entries) ]_vars

(***************************************************************************)
(* Saved and loaded again                                                  *)
(***************************************************************************)
\* The cache that a load of the path of the running cache returns now.
LoadedAgain ==
    NicknameCache_load(Unwrap(store.cache).path, store.file, store.clock)

\* get returns the same for every callsign on the running cache and on the
\* cache loaded again.
SameAnswers ==
    /\ LoadedAgain.ok
    /\ \A c \in CacheCallsigns :
         NicknameCache_get(LoadedAgain.cache, c, store.clock) = Get(c)

(***************************************************************************)
(* C29: persistence round trip: after any sequence of inserts followed by  *)
(* a successful save, loading the same path yields a cache whose get       *)
(* returns, for every callsign, the same value as the saved cache (a       *)
(* nickname, a confirmed absence or a miss).                               *)
(***************************************************************************)
C29_RoundTrip == (Running /\ store.saved) => SameAnswers

\* C29, amended: the round trip holds for a cache bound to the configured
\* file; the fallback cache bound to /dev/null loads back empty.
C29_RoundTripOnConfiguredFile ==
    (Running /\ store.saved) =>
        IF Unwrap(store.cache).path = CachePath
        THEN SameAnswers
        ELSE /\ LoadedAgain.ok
             /\ LoadedAgain.cache.entries = NoEntries

\* W1A was inserted with the nickname "Al" and K2B without a nickname, the
\* cache was saved to the configured file: both answers come back.
C29_Witness ==
    /\ Running /\ store.saved
    /\ Unwrap(store.cache).path = CachePath
    /\ Len(store.inserts) = 2
    /\ Get(<< 87, 49, 65 >>) = Some(Some(<< 65, 108 >>))
    /\ Get(<< 75, 50, 66 >>) = Some(None)
    /\ NicknameCache_get(LoadedAgain.cache, << 75, 50, 66 >>,
        store.clock) = Some(None)

(***************************************************************************)
(* C30: whenever the process ends while the cache holds unsaved dirty      *)
(* state, at the end of a run-once pass or when a daemon-mode process is   *)
(* stopped, a save was attempted before the end; a failure of that save    *)
(* is logged and main still returns Ok.                                    *)
(***************************************************************************)
C30_DirtyStateFlushedAtShutdown ==
    store.pc \in {"exited", "stopped"} =>
        /\ Unwrap(store.end).dirty => Unwrap(store.end).flush # "none"
        /\ Unwrap(store.end).flush = "failed" =>
               store.warned /\ Unwrap(store.end).status = "Ok"

\* Observation: an insert of this run has not been saved successfully yet.
Unsaved == store.inserts # << >> /\ ~store.saved

\* Observation: the process started, and the load of the configured path
\* had failed.
LoadFailed == store.loaded # None /\ ~Loaded.ok

(***************************************************************************)
(* C34: the dirty flag is set exactly when an insert has happened since    *)
(* the load or the last successful save; no step of a process whose cache  *)
(* is clean writes the file (a save of a clean cache included); a save of  *)
(* a dirty cache clears the flag exactly when it succeeds and is logged    *)
(* when it fails, and while the flag is set a further save that writes and *)
(* succeeds is possible.                                                   *)
(***************************************************************************)
C34_DirtyIffUnsavedInsert ==
    /\ [](Running =>
            /\ Unwrap(store.cache).dirty <=> Unsaved
            /\ Unwrap(store.cache).dirty =>
                   ENABLED (/\ cache_save
                            /\ store'.pc = "run"
                            /\ ~Unwrap(store'.cache).dirty))
    /\ [][/\ Running /\ ~Unwrap(store.cache).dirty => store'.file = store.file
          /\ /\ Running /\ Unwrap(store.cache).dirty
             /\ store'.pc = "run" /\ store'.inserts = store.inserts
             /\ store'.clock = store.clock
             => /\ Unwrap(store'.cache).dirty <=> ~store'.saved
                /\ Unwrap(store'.cache).dirty => store'.warned]_vars

\* A save on the configured file has failed after an insert: still dirty.
C34_Witness ==
    /\ Running
    /\ Loaded.ok
    /\ store.inserts # << >>
    /\ store.warned
    /\ Unwrap(store.cache).dirty

(***************************************************************************)
(* C39: when the load of the configured path fails at startup, the cache   *)
(* of the process is bound to /dev/null: until the process ends the        *)
(* configured file stays as it was found, whatever is inserted and saved,  *)
(* and a later load of the configured path fails as the first one did.     *)
(***************************************************************************)
C39_FallbackBoundToDevNull ==
    LoadFailed =>
        /\ Running => Unwrap(store.cache).path = DevNull
        /\ store.file = Unwrap(store.loaded).file
        /\ ~NicknameCache_load(CachePath, store.file, store.clock).ok

\* After a failed load a nickname was inserted and the save succeeded.
C39_Witness ==
    /\ Running
    /\ LoadFailed
    /\ \E i \in DOMAIN store.inserts : store.inserts[i].nickname # None
    /\ store.saved
    /\ ~Unwrap(store.cache).dirty

(***************************************************************************)
(* NotesGenerator::generate and GitHubClient::content_changed on the text  *)
(* of a notes file (notes_generator.rs:19-46, github.rs:177-192).          *)
(* A daemon renders an organization's members and compares the rendering   *)
(* with the file of the repository; a changed file replaces it.            *)
(***************************************************************************)
MaxRenderings == 2  \* renderings of one organization that are explored

\* u32 as Display prints it: the decimal digits, no padding.
RECURSIVE u32_to_string(_)
u32_to_string(n) ==
    IF n < 10 THEN << 48 + n >>
    ELSE u32_to_string(n \div 10) \o << 48 + (n % 10) >>

\* %Y, and %m %d %H %M %S: zero-padded to four and to two digits.
pad(n, width) ==
    LET d == u32_to_string(n)
    IN  [i \in 1..(width - Len(d)) |-> 48] \o d

\* Utc::now().format("%Y-%m-%d %H:%M:%S UTC")
format_utc(t) ==
    pad(t.year, 4) \o << 45 >> \o pad(t.month, 2) \o << 45 >> \o pad(t.day, 2)
        \o << 32 >> \o pad(t.hour, 2) \o << 58 >> \o pad(t.minute, 2)
        \o << 58 >> \o pad(t.second, 2) \o << 32, 85, 84, 67 >>

\* NotesGenerator::new: a missing url is the empty string.
NotesGenerator_new(emoji, label, url) ==
    [emoji |-> emoji, label |-> label,
     url |-> IF url = None THEN << >> ELSE Unwrap(url)]

\* Mutant: an entry without the member's number.
entry_line_without_id(generator, member) ==
    member.callsign \o << 32 >> \o generator.emoji \o << 32 >>
        \o generator.label \o << 10 >>

\* format!("{} {} {} #{}\n", callsign, emoji, label, member_id)
entry_line(generator, member) ==
    member.callsign \o << 32 >> \o generator.emoji \o << 32 >>
        \o generator.label \o << 32, 35 >> \o u32_to_string(member.member_id)
        \o << 10 >>

RECURSIVE concat(_)
concat(ss) == IF ss = << >> THEN << >> ELSE Head(ss) \o concat(Tail(ss))

\* NotesGenerator::generate: the header, a blank line, the sorted entries.
\* The literals: "# ", " Callsign Notes for Ham2K PoLo", "# Generated:" and
\* "# Do not edit manually - this file is auto-generated".
NotesGenerator_generate(generator, ms, t) ==
    LET sorted == sort_by_cmp(ms)
    IN  << 35, 32 >> \o generator.label
        \o << 32, 67, 97, 108, 108, 115, 105, 103, 110, 32, 78, 111, 116,
              101, 115, 32, 102, 111, 114, 32, 72, 97, 109, 50, 75, 32, 80,
              111, 76, 111, 10 >>
        \o << 35, 32, 71, 101, 110, 101, 114, 97, 116, 101, 100, 58, 32 >>
        \o format_utc(t) \o << 10 >>
        \o (IF generator.url # << >>
            THEN << 35, 32 >> \o generator.url \o << 10 >> ELSE << >>)
        \o << 35, 32, 68, 111, 32, 110, 111, 116, 32, 101, 100, 105, 116,
              32, 109, 97, 110, 117, 97, 108, 108, 121, 32, 45, 32, 116, 104,
              105, 115, 32, 102, 105, 108, 101, 32, 105, 115, 32, 97, 117,
              116, 111, 45, 103, 101, 110, 101, 114, 97, 116, 101, 100, 10 >>
        \o << 10 >>
        \o concat([i \in DOMAIN sorted |-> entry_line(generator, sorted[i])])

\* str::lines: the pieces that end at a "\n" and the rest after the last
\* one if it is not empty; a "\r" before the "\n" belongs to the line ending.
lines(s) ==
    LET nl   == { i \in DOMAIN s : s[i] = 10 }
        ends == nl \cup (IF s # << >> /\ s[Len(s)] # 10
                         THEN { Len(s) + 1 } ELSE {})
        end(k)   == CHOOSE e \in ends :
                        Cardinality({ x \in ends : x < e }) = k - 1
        start(k) == IF k = 1 THEN 1 ELSE end(k - 1) + 1
        last(k)  == IF /\ end(k) \in nl
                       /\ end(k) > start(k)
                       /\ s[end(k) - 1] = 13
                    THEN end(k) - 2 ELSE end(k) - 1
    IN  [k \in 1..Cardinality(ends) |-> SubSeq(s, start(k), last(k))]

\* str::starts_with
starts_with(s, prefix) ==
    Len(s) >= Len(prefix) /\ SubSeq(s, 1, Len(prefix)) = prefix

\* Mutant: no line is taken for the timestamp line.
is_generated_line_never(l) == FALSE

\* l.starts_with("# Generated:")
is_generated_line(l) == starts_with(l, << 35, 32, 71, 101, 110, 101, 114,
    97, 116, 101, 100, 58 >>)

\* GitHubClient::content_changed on the result of get_file_content.
GitHubClient_content_changed(existing, new_content) ==
    IF existing = None THEN TRUE
    ELSE SelectSeq(lines(Unwrap(existing)), LAMBDA l : ~is_generated_line(l))
             # SelectSeq(lines(new_content), LAMBDA l : ~is_generated_line(l))

\* Inputs: the members of the generator's test with their numbers, in every
\* order and every selection; callsigns are unique in a parsed roster.
NotesMembers ==
    { [callsign |-> << 87, 54, 74, 83, 86 >>, member_id |-> 10,
        nickname |-> None],
      [callsign |-> << 75, 52, 77, 87 >>, member_id |-> 1, nickname |-> None],
      [callsign |-> << 87, 78, 55, 74, 84 >>, member_id |-> 2,
          nickname |-> None] }
MemberLists ==
    { ms \in UNION { [1..n -> NotesMembers] : n \in 0..3 } :
        \A i, j \in DOMAIN ms : ms[i] = ms[j] => i = j }

\* An anchor, "QRQ Crew", and no url (main.rs:262) or the url of the tests.
Generators ==
    { NotesGenerator_new(<< 9875 >>, << 81, 82, 81, 32, 67, 114, 101,
        119 >>, url) :
        url \in { None, Some(<< 104, 116, 116, 112, 115, 58, 47, 47, 113,
            114, 113, 99, 114, 101, 119, 46, 99, 108, 117, 98 >>) } }

\* Two instants of one day.
NotesInstants ==
    { [year |-> 2026, month |-> 11, day |-> 1, hour |-> 7, minute |-> 5,
       second |-> s] : s \in { 9, 30 } }

\* The file of the repository before the first rendering: missing, empty,
\* or edited by hand to a timestamp line and one entry with "\r\n" endings.
RemoteFiles ==
    { None, Some(<< >>),
      Some(<< 35, 32, 71, 101, 110, 101, 114, 97, 116, 101, 100,
          58 >> \o << 13, 10 >> \o << 75, 52, 77, 87 >> \o << 13, 10 >>) }

InitNotes ==
    /\ MainIdle /\ QrzIdle /\ FetchIdle /\ ParseIdle /\ StoreIdle
    /\ \E g \in Generators, ms \in MemberLists, t \in NotesInstants,
          r \in RemoteFiles :
           eval = [pc |-> "generate", generator |-> g, members |-> ms,
                   at |-> t, remote |-> r, rendered_from |-> None,
                   content |-> None, changed |-> None, renderings |-> 0]

\* let content = generator.generate(&members)
notes_generate ==
    /\ eval.pc = "generate"
    /\ eval' = [eval EXCEPT
           !.pc = "content_changed",
           !.content = Some(NotesGenerator_generate(eval.generator,
                                                    eval.members, eval.at)),
           !.renderings = @ + 1]
    /\ UNCHANGED << main_vars, qrz_vars, fetch, parse, store >>

\* github.content_changed(&path, &content)
notes_content_changed ==
    /\ eval.pc = "content_changed"
    /\ eval' = [eval EXCEPT
           !.pc = "commit",
           !.changed = Some(GitHubClient_content_changed(eval.remote,
                                                 Unwrap(eval.content)))]
    /\ UNCHANGED << main_vars, qrz_vars, fetch, parse, store >>

\* A changed file is committed and is the file of the repository from then
\* on; the next rendering is of any member list at any instant.
notes_commit ==
    /\ eval.pc = "commit"
    /\ eval.renderings < MaxRenderings
    /\ \E ms \in MemberLists, t \in NotesInstants :
           eval' = [eval EXCEPT
               !.pc = "generate",
               !.members = ms,
               !.at = t,
               !.remote = IF Unwrap(eval.changed)
                          THEN eval.content ELSE eval.remote,
               !.rendered_from =
                   IF Unwrap(eval.changed)
                   THEN Some([members |-> eval.members, at |-> eval.at])
                   ELSE eval.rendered_from,
               !.content = None,
               !.changed = None]
    /\ UNCHANGED << main_vars, qrz_vars, fetch, parse, store >>

NextNotes == notes_generate \/ notes_content_changed \/ notes_commit

SpecNotes == InitNotes /\ [][NextNotes]_vars

\* Observation: the rendering at hand, the rendering the file of the
\* repository was committed from, and the lines of a text without the
\* "# Generated: <instant>" line of any instant.
Rendered == eval.pc \in { "content_changed", "commit" }
Compared == eval.pc = "commit"
CommittedBefore == Compared /\ eval.rendered_from # None
TimestampLine(l) ==
    \E t \in NotesInstants : l = << 35, 32, 71, 101, 110, 101, 114, 97, 116, 101, 100, 58 >> \o << 32 >> \o format_utc(t)
OtherLines(s) == SelectSeq(lines(s), LAMBDA l : ~TimestampLine(l))
Rank(m, ms) ==
    1 + Cardinality({ i \in DOMAIN ms : cmp_less(ms[i].callsign, m.callsign) })
IdText(id) == CASE id = 1 -> << 49 >> [] id = 2 -> << 50 >>
                [] id = 10 -> << 49, 48 >>
DataLine(g, m) ==
    m.callsign \o << 32 >> \o g.emoji \o << 32 >> \o g.label
        \o << 32, 35 >> \o IdText(m.member_id)
HeaderLines(g) == IF g.url = << >> THEN 3 ELSE 4

(***************************************************************************)
(* C31: content_changed answers false exactly when the file of the         *)
(* repository exists and its lines other than the timestamp line are the   *)
(* lines of the new content other than its timestamp line, and true        *)
(* otherwise (file missing, or another line differs); a rendering of the   *)
(* member list the file was committed from, at any instant, compares as    *)
(* unchanged.                                                              *)
(***************************************************************************)
C31_ChangedIgnoresTimestamp ==
    Compared =>
        /\ Unwrap(eval.changed) = FALSE <=>
               /\ eval.remote # None
               /\ OtherLines(Unwrap(eval.remote))
                      = OtherLines(Unwrap(eval.content))
        /\ eval.remote = None => Unwrap(eval.changed) = TRUE
        /\ /\ eval.rendered_from # None
           /\ Unwrap(eval.rendered_from).members = eval.members
           => Unwrap(eval.changed) = FALSE

\* The same non-empty list rendered again at another instant: unchanged.
C31_Witness ==
    /\ CommittedBefore
    /\ eval.members # << >>
    /\ Unwrap(eval.rendered_from).members = eval.members
    /\ Unwrap(eval.rendered_from).at # eval.at
    /\ Unwrap(eval.remote) # Unwrap(eval.content)
    /\ Unwrap(eval.changed) = FALSE

(***************************************************************************)
(* C32: whatever the order of the member list, the rendered file is the    *)
(* header lines, one blank line, and one line per member in ascending      *)
(* order of the callsigns, each "<callsign> <emoji> <label> #<id>"; the    *)
(* renderings of two orders of the same members differ at most in the      *)
(* timestamp line.                                                         *)
(***************************************************************************)
C32_SortedEntriesAfterHeader ==
    Rendered =>
        LET ls == lines(Unwrap(eval.content))
            h  == HeaderLines(eval.generator)
            ms == eval.members
        IN  /\ Len(ls) = h + 1 + Len(ms)
            /\ \A i \in 1..h : ls[i] # << >> /\ ls[i][1] = 35
            /\ ls[h + 1] = << >>
            /\ \A i \in DOMAIN ms :
                   ls[h + 1 + Rank(ms[i], ms)] = DataLine(eval.generator, ms[i])
            /\ /\ CommittedBefore
               /\ { Unwrap(eval.rendered_from).members[i] :
                      i \in DOMAIN Unwrap(eval.rendered_from).members }
                      = { ms[i] : i \in DOMAIN ms }
               => LET was == lines(Unwrap(eval.remote))
                  IN  /\ Len(was) = Len(ls)
                      /\ \A i \in DOMAIN ls :
                             was[i] # ls[i] => TimestampLine(ls[i])

\* Three members given in descending order, after a rendering of the same
\* members in another order.
C32_Witness ==
    /\ CommittedBefore
    /\ Len(eval.members) = 3
    /\ \A i \in 1..2 :
           cmp_less(eval.members[i + 1].callsign, eval.members[i].callsign)
    /\ Unwrap(eval.rendered_from).members # eval.members
    /\ Len(Unwrap(eval.rendered_from).members) = 3
    /\ { Unwrap(eval.rendered_from).members[i] : i \in 1..3 }
           = { eval.members[i] : i \in 1..3 }

(***************************************************************************)
(* GitHubTarget::resolve on every combination of set and unset override    *)
(* fields (main.rs:205-206, github.rs:89-106).                             *)
(***************************************************************************)
\* Names an override field or a global field can carry.
OwnerNames  == { "jsvana", "club" }
RepoNames   == { "notes", "club" }
BranchNames == { "main", "club" }

\* org.github: absent, or present with each field absent or set.
OrgGitHubConfigs ==
    { None } \cup
    { Some([owner |-> o, repo |-> r, branch |-> b]) :
        o \in { None } \cup { Some(n) : n \in OwnerNames },
        r \in { None } \cup { Some(n) : n \in RepoNames },
        b \in { None } \cup { Some(n) : n \in BranchNames } }

\* config.github: every field is required.
GitHubConfigs ==
    { [owner |-> o, repo |-> r, branch |-> "main"] :
        o \in OwnerNames, r \in RepoNames }

InitResolve ==
    /\ MainIdle /\ QrzIdle /\ FetchIdle /\ ParseIdle /\ StoreIdle
    /\ \E o \in OrgGitHubConfigs, g \in GitHubConfigs :
           eval = [pc |-> "resolve", org_github |-> o, global_github |-> g,
                   target |-> None]

\* let target = GitHubTarget::resolve(org.github.as_ref(), global_github)
resolve_target ==
    /\ eval.pc = "resolve"
    /\ eval' = [eval EXCEPT
           !.pc = "resolved",
           !.target = Some(resolve(eval.org_github, eval.global_github))]
    /\ UNCHANGED << main_vars, qrz_vars, fetch, parse, store >>

NextResolve == resolve_target

SpecResolve == InitResolve /\ [][NextResolve]_vars

\* Observation: the override of a field, if the organization sets one.
Override(field) ==
    IF eval.org_github = None THEN None ELSE Unwrap(eval.org_github)[field]

(***************************************************************************)
(* C33: each of owner, repo and branch of the resolved destination is the  *)
(* organization's override of that field when it is set and the global     *)
(* value otherwise; without an override the destination is the global one. *)
(***************************************************************************)
C33_ResolvedFieldByField ==
    eval.pc = "resolved" =>
        /\ \A field \in { "owner", "repo", "branch" } :
               Unwrap(eval.target)[field] =
                   IF Override(field) # None THEN Unwrap(Override(field))
                   ELSE eval.global_github[field]
        /\ eval.org_github = None => Unwrap(eval.target) = eval.global_github

\* Owner and branch overridden to other names, repo left to the global one.
C33_Witness ==
    /\ eval.pc = "resolved"
    /\ Override("owner") # None
    /\ Unwrap(Override("owner")) # eval.global_github.owner
    /\ Override("repo") = None
    /\ Override("branch") = Some("club")
    /\ Unwrap(eval.target) =
           [owner |-> Unwrap(Override("owner")),
            repo |-> eval.global_github.repo, branch |-> "club"]

====
